---- MODULE Spec2Model ----
(***************************************************************************)
(* Model of the browser automation service (patchwright/app/browser_api):  *)
(* the tab registry of BrowserAutomation (pages, current_page_index,       *)
(* current_frame), the tab and frame actions that mutate it, and the       *)
(* human intervention registry of HumanInterventionActions, the page      *)
(* inspection of DOMHandler, and the navigation, interaction and drag     *)
(* actions that work on the inspected page.                                *)
(*                                                                         *)
(* Handlers run one at a time (spec.md section 5): every action below is   *)
(* one whole handler call, from its first line to its return.  Faults of   *)
(* the browser engine (a Playwright call that raises) are inputs of the    *)
(* action, drawn with \E.                                                  *)
(*                                                                         *)
(* Time.  datetime.now() is modelled by the clock `now`, counted in ticks  *)
(* of 1/TicksPerSecond second, so that elapsed times are fractional        *)
(* seconds as total_seconds() returns them while timeout_seconds is a      *)
(* whole number of seconds.  The clock advances by Tick between and        *)
(* during calls; request_intervention takes at least one tick between the  *)
(* construction of the InterventionRequest (created_at) and its return,    *)
(* because it awaits the browser round trip that renders the overlay.      *)
(***************************************************************************)
EXTENDS Integers, Sequences, FiniteSets, TLC

\* ------------------------------------------------------------------ bounds
MaxPageHandles == 3    \* most pages the browser creates in one run
MaxIds == 2            \* most intervention ids issued in one run
MaxTime == 2           \* last clock tick
MaxText == 2           \* most characters a form field holds
MaxSteps == 11         \* most steps a caller of drag_drop asks for
TicksPerSecond == 2    \* clock resolution

\* ------------------------------------------------------- optional values
None == <<>>
Some(v) == <<v>>
Get(o) == o[1]

\* InterventionStatus (intervention_models.py)
PENDING == "pending"
IN_PROGRESS == "in_progress"
COMPLETED == "completed"
TIMEOUT == "timeout"
CANCELLED == "cancelled"
FAILED == "failed"
InterventionStatus == {PENDING, IN_PROGRESS, COMPLETED, TIMEOUT, CANCELLED, FAILED}
TerminalStatus == {COMPLETED, TIMEOUT, CANCELLED, FAILED}

\* messages of the results the handlers return
MsgRequested == "Human intervention requested"
MsgRequestFailed == "Failed to request intervention"
MsgNotFound == "Intervention not found"
MsgCompleted == "Intervention completed successfully"
MsgCompleteFailed == "Failed to complete intervention"
MsgCancelled == "Intervention cancelled"
MsgCancelFailed == "Failed to cancel intervention"
MsgNoActive == "No active interventions found"
MsgStatus == "Intervention status retrieved"
MsgStatusFailed == "Failed to get intervention status"
MsgAutoDetect == "Auto-detection completed"
MsgAutoDetectFailed == "Failed to auto-detect intervention needs"
MsgNoPages == "No browser pages available"
MsgNoTabIndex == "No tab index or page ID provided"
MsgInvalidTab == "Invalid tab index"
MsgUnbound == "local variable 'page' referenced before assignment"
MsgLastTab == "Cannot close the last tab"
MsgSwitched == "Switched to tab"
MsgOpened == "Opened new tab"
MsgOpenFailed == "Failed to open new tab"
MsgClosed == "Closed tab"
MsgCloseFailed == "Failed to close tab"
MsgNoFrameSelector == "No frame selector provided"
MsgInvalidFrame == "Invalid frame index"
MsgFrameNotFound == "Frame not found"
MsgFrameSwitched == "Switched to frame"
MsgFrameFailed == "Failed to switch to frame"
MsgNoFrameContent == "Could not access frame content"
MsgMainFrame == "Switched to main frame"

VARIABLES
    pages,                \* BrowserAutomation.pages: sequence of page handles
    current_page_index,   \* BrowserAutomation.current_page_index
    current_frame,        \* BrowserAutomation.current_frame: None or Some(frame)
    next_page,            \* number of page handles the browser has created
    overlay,              \* per page handle: id shown in its intervention notice, or None
    interventions,        \* every InterventionRequest object created, by id
    active_interventions, \* keys of HumanInterventionActions._active_interventions
    now,                  \* datetime.now(), in ticks
    result,               \* the BrowserActionResult of the last call
    url,                  \* per page handle: the url the page shows
    value,                \* per page handle: the content of its form fields
    calls,                \* the input operations the last interaction action issued
    jar,                  \* the cookies of the browser context
    tasks                 \* the calls that overlap: where each stands

vars == <<pages, current_page_index, current_frame, next_page, overlay,
          interventions, active_interventions, now, result,
          url, value, calls, jar, tasks>>

tabVars == <<pages, current_page_index, current_frame, next_page>>
hiVars == <<interventions, active_interventions>>
domVars == <<url, value, calls>>

PageHandles == 1..MaxPageHandles
Ids == 1..MaxIds

\* ------------------------------------------------------------- results
\* the error strings of the results
NoError == <<>>
ErrNoIntervention(intervention_id) == <<"No intervention found with ID", intervention_id>>
ErrNoActive == <<"No intervention ID provided and no active interventions exist">>
ErrException == <<"str(e)">>
ErrTabIndexRequired == <<"Either tab_index or page_id must be provided">>
ErrTabIndexRange == <<"Tab index must be between 0 and", Len(pages) - 1>>
ErrLastTab == <<"At least one tab must remain open">>
ErrFrameRequired == <<"The 'frame_selector' parameter is required">>
ErrFrameRange == <<"Frame index must be between 0 and">>
ErrFrameNotFound == <<"No frame with name or ID found">>
ErrFrameContent == <<"Failed to access frame content">>

NoContent == [intervention_id |-> None, status |-> None, time_remaining |-> None]
Content(intervention_id, status, time_remaining) ==
    [intervention_id |-> Some(intervention_id), status |-> Some(status),
     time_remaining |-> time_remaining]

\* BrowserActionResult: success, message, error, the url of the embedded page
\* state (None by default) and the fields of content that the intervention
\* handlers fill in; action names the handler that returned it.  raised is
\* FALSE for every result a handler returns.
BrowserActionResult(action, success, message, error, content) ==
    [action |-> action, success |-> success, message |-> message, error |-> error,
     url |-> None, raised |-> FALSE, detection |-> None,
     intervention_id |-> content.intervention_id, status |-> content.status,
     time_remaining |-> content.time_remaining]

\* what the caller of a handler observes when the handler returns nothing
\* because an exception left it
Raised(action) ==
    [BrowserActionResult(action, FALSE, "", NoError, NoContent) EXCEPT !.raised = TRUE]

\* BrowserAutomation.build_action_result: the page state is embedded only
\* when a DOMState is passed
build_action_result(action, success, message, state, error) ==
    LET r == BrowserActionResult(action, success, message, error, NoContent)
    IN IF state # None THEN [r EXCEPT !.url = Some(Get(state).url)] ELSE r

NoResult == BrowserActionResult("", TRUE, "", NoError, NoContent)

\* ----------------------------------------------------- BrowserAutomation
\* get_current_page raises when there is no page
get_current_page_raises == pages = <<>>
get_current_page == pages[current_page_index + 1]

PageContext(p) == [kind |-> "page", page |-> p, frame |-> 0]
Frame(p, i) == [kind |-> "frame", page |-> p, frame |-> i]

\* get_current_context: the frame when one is selected, else the current page
get_current_context ==
    IF current_frame # None THEN Get(current_frame)
    ELSE PageContext(get_current_page)

\* --------------------------------------------------------- Python floats
\* A Python float is an IEEE 754 double: zero, or (-1)^s * M * 2^e with M a
\* whole number of exactly MantissaBits binary digits.  m holds M as three
\* limbs of LimbBits digits, most significant first, so that the first limb
\* has MantissaBits - 2 * LimbBits digits.  Only finite values in the normal
\* range occur.  Every operation rounds its exact result to the nearest
\* double, ties to the even mantissa.  A whole number that takes part in
\* float arithmetic is converted first, as Python does.
MantissaBits == 53
LimbBits == 18
Base == 2^LimbBits
TopBits == MantissaBits - 2 * LimbBits
Zero == [s |-> 0, m |-> <<0, 0, 0>>, e |-> 0]

\* the number of binary digits of a limb t > 0
Width(t) == CHOOSE w \in 1..LimbBits : 2^(w - 1) <= t /\ t < 2^w

\* limbs from the first non-zero limb on
Strip(limbs) ==
    SubSeq(limbs,
           CHOOSE j \in 1..Len(limbs) :
               limbs[j] # 0 /\ \A i \in 1..(j - 1) : limbs[i] = 0,
           Len(limbs))

\* the limbs of N * 2^k for the limbs sig of N, at least four of them; the
\* first limb of sig has at most LimbBits - k digits
ShiftLeft(sig, k) ==
    [j \in 1..(IF Len(sig) < 4 THEN 4 ELSE Len(sig)) |->
        ((IF j <= Len(sig) THEN sig[j] ELSE 0) % 2^(LimbBits - k)) * 2^k
            + (IF j + 1 <= Len(sig) THEN sig[j + 1] ELSE 0) \div 2^(LimbBits - k)]

\* The double of the limbs d, whose first limb has TopBits digits: the
\* first three limbs are the mantissa, with exponent exp; the limbs below
\* them and sticky (the exact value lies a little above d) decide the
\* rounding.
Rounded(s, d, exp, sticky) ==
    LET up == /\ d[4] >= Base \div 2
              /\ \/ sticky
                 \/ d[4] % (Base \div 2) # 0
                 \/ \E j \in 5..Len(d) : d[j] # 0
                 \/ d[3] % 2 = 1
    IN IF ~up
       THEN [s |-> s, m |-> <<d[1], d[2], d[3]>>, e |-> exp]
       ELSE IF d[3] + 1 < Base
       THEN [s |-> s, m |-> <<d[1], d[2], d[3] + 1>>, e |-> exp]
       ELSE IF d[2] + 1 < Base
       THEN [s |-> s, m |-> <<d[1], d[2] + 1, 0>>, e |-> exp]
       ELSE IF d[1] + 1 < 2^TopBits
       THEN [s |-> s, m |-> <<d[1] + 1, 0, 0>>, e |-> exp]
       ELSE [s |-> s, m |-> <<2^(TopBits - 1), 0, 0>>, e |-> exp + 1]

\* the double nearest to (-1)^s * N * 2^e (+ sticky), for the limbs sig of
\* N > 0 whose first limb is not zero and has width digits: N is shifted
\* left until its first limb holds TopBits digits, behind a zero limb when
\* it holds more
Normalized(s, sig, e, sticky, width) ==
    IF width > TopBits
    THEN Rounded(s, ShiftLeft(<<0>> \o sig, LimbBits + TopBits - width),
                 e - (LimbBits + TopBits - width) + LimbBits * (Len(sig) - 2), sticky)
    ELSE Rounded(s, ShiftLeft(sig, TopBits - width),
                 e - (TopBits - width) + LimbBits * (Len(sig) - 3), sticky)

from_limbs(s, sig, e, sticky) == Normalized(s, sig, e, sticky, Width(sig[1]))

\* the double nearest to (-1)^s * N * 2^e, limbs holding the whole number N;
\* sticky tells that the exact magnitude lies above N * 2^e by less than
\* 2^e
fround(s, limbs, e, sticky) ==
    IF \A j \in 1..Len(limbs) : limbs[j] = 0 THEN Zero
    ELSE from_limbs(s, Strip(limbs), e, sticky)

\* |a|
abs(a) == IF a < 0 THEN 0 - a ELSE a

\* float(a) for a whole number a
FromInt(a) ==
    fround(IF a < 0 THEN 1 ELSE 0, <<abs(a) \div Base, abs(a) % Base>>, 0, FALSE)

\* -f
fneg(f) == IF f = Zero THEN Zero ELSE [f EXCEPT !.s = 1 - f.s]

\* the quotient of the limbs p by d, 0 < d < 2^12, and whether a remainder
\* is left
Quotient(p, d) ==
    LET rem[j \in 0..Len(p)] == IF j = 0 THEN 0 ELSE (rem[j - 1] * Base + p[j]) % d
    IN [limbs |-> [j \in 1..Len(p) |-> (rem[j - 1] * Base + p[j]) \div d],
        inexact |-> rem[Len(p)] # 0]

from_quotient(s, q, e) == fround(s, q.limbs, e, q.inexact)

\* f / n for a float f and a whole number n with 0 < |n| < 2^12: long
\* division of the mantissa, followed by two zero limbs so that the quotient
\* has more than MantissaBits digits; what remains then is the sticky part
fdiv(f, n) ==
    IF f = Zero THEN Zero
    ELSE from_quotient(IF n < 0 THEN 1 - f.s ELSE f.s,
                       Quotient(f.m \o <<0, 0>>, abs(n)), f.e - 2 * LimbBits)

\* the product of the limbs p by d, 0 < d < 2^12
Product(p, d) ==
    LET carry[j \in 1..(Len(p) + 1)] ==
            IF j = Len(p) + 1 THEN 0 ELSE (p[j] * d + carry[j + 1]) \div Base
    IN <<carry[1]>> \o [j \in 1..Len(p) |-> (p[j] * d + carry[j + 1]) % Base]

\* f * i for a float f and a whole number i with |i| < 2^12
fmul(f, i) ==
    IF f = Zero \/ i = 0 THEN Zero
    ELSE fround(IF i < 0 THEN 1 - f.s ELSE f.s, Product(f.m, abs(i)), f.e, FALSE)

\* limbs of equal length: their sum, their order, their difference x - y
\* for y <= x
Sum(x, y) ==
    LET carry[j \in 1..(Len(x) + 1)] ==
            IF j = Len(x) + 1 THEN 0 ELSE (x[j] + y[j] + carry[j + 1]) \div Base
    IN <<carry[1]>> \o [j \in 1..Len(x) |-> (x[j] + y[j] + carry[j + 1]) % Base]
Less(x, y) == \E j \in 1..Len(x) : x[j] < y[j] /\ \A i \in 1..(j - 1) : x[i] = y[i]
Difference(x, y) ==
    LET borrow[j \in 1..(Len(x) + 1)] ==
            IF j = Len(x) + 1 THEN 0
            ELSE IF x[j] - y[j] - borrow[j + 1] < 0 THEN 1 ELSE 0
    IN [j \in 1..Len(x) |-> (x[j] - y[j] - borrow[j + 1] + Base) % Base]

\* (-1)^sa * A * 2^e + (-1)^sb * B * 2^e for the limbs a of A and b of B
add_limbs(sa, a, sb, b, e) ==
    IF sa = sb THEN fround(sa, Sum(a, b), e, FALSE)
    ELSE IF Less(a, b) THEN fround(sb, Difference(b, a), e, FALSE)
    ELSE fround(sa, Difference(a, b), e, FALSE)

\* hi + lo for non-zero floats with hi.e >= lo.e: the mantissa of hi is
\* shifted left by the difference d of the exponents, whole limbs and digits,
\* the mantissa of lo gets as many zero limbs in front
add_shifted(hi, lo, d) ==
    add_limbs(hi.s,
              SubSeq(ShiftLeft(<<0>> \o hi.m, d % LimbBits), 1, 4)
                  \o [j \in 1..(d \div LimbBits) |-> 0],
              lo.s,
              [j \in 1..(1 + d \div LimbBits) |-> 0] \o lo.m,
              lo.e)

\* f + g
fadd(f, g) ==
    IF f = Zero THEN g
    ELSE IF g = Zero THEN f
    ELSE IF f.e >= g.e THEN add_shifted(f, g, f.e - g.e)
    ELSE add_shifted(g, f, g.e - f.e)

\* f < g: by sign, then by exponent, then by mantissa (every non-zero
\* mantissa has MantissaBits digits)
below(a, b) == a.e < b.e \/ (a.e = b.e /\ Less(a.m, b.m))
flt(f, g) ==
    CASE f = Zero -> g # Zero /\ g.s = 0
      [] g = Zero -> f.s = 1
      [] f.s # g.s -> f.s = 1
      [] f.s = 0 -> below(f, g)
      [] OTHER -> below(g, f)

\* ------------------------------------------------------------ documents
\* The documents a page can show, by url.  A document is the sequence of its
\* visible interactive elements in document order, as the script of
\* get_selector_map finds them: tag, id and name attributes (None where the
\* attribute is absent), bounding box in page coordinates.
BlankUrl == "about:blank"
Urls == {BlankUrl, "u1", "u2", "https://www.google.com", "https://www.google.com/search"}

Attributes(id, name) == [id |-> id, name |-> name]
CoordinateSet(x, y, width, height) == [x |-> x, y |-> y, width |-> width, height |-> height]

PageElements(u) ==
    CASE u = "u1" ->
           <<[tagName |-> "input", attributes |-> Attributes(Some("a"), Some("n1")),
              rect |-> CoordinateSet(0, 0, 10, 4)],
             [tagName |-> "textarea", attributes |-> Attributes(None, None),
              rect |-> CoordinateSet(20, 0, 7, 2)]>>
      [] u = "u2" ->
           <<[tagName |-> "input", attributes |-> Attributes(Some(""), Some("q")),
              rect |-> CoordinateSet(4, 4, 6, 6)]>>
      [] OTHER -> <<>>

\* the boxes of the elements of all documents
Boxes == UNION {{PageElements(u)[k].rect : k \in 1..Len(PageElements(u))} : u \in Urls}

\* the content of the form fields of a freshly loaded document
InitialValue(u) == [k \in 1..Len(PageElements(u)) |-> <<"o">>]

\* page.url, frame.url
context_url(context, urls) == [page |-> urls[context.page], frame |-> context.frame]

\* the document of a child frame: one field, its box in the coordinates of
\* the frame
FrameElements ==
    <<[tagName |-> "input", attributes |-> Attributes(Some("a"), None),
       rect |-> CoordinateSet(0, 0, 10, 4)]>>

\* the elements of the document of a context: the main frame (frame 0) is
\* the document of the page
ContextElements(context, urls) ==
    IF context.frame = 0 THEN PageElements(urls[context.page]) ELSE FrameElements

\* -------------------------------------------------------------- DOMHandler
\* page.evaluate(elements_js): the script numbers the visible elements
\* index + 1 in enumeration order
evaluate_elements(context, urls) ==
    LET found == ContextElements(context, urls)
    IN [k \in 1..Len(found) |->
           [index |-> (k - 1) + 1, tagName |-> found[k].tagName,
            attributes |-> found[k].attributes, pageCoordinates |-> found[k].rect]]

\* dom_models.DOMElementNode, with the fields the actions read
DOMElementNode(tag_name, attributes, highlight_index, page_coordinates) ==
    [tag_name |-> tag_name, attributes |-> attributes,
     highlight_index |-> highlight_index, page_coordinates |-> page_coordinates]

\* the highlight_index of a DOMElementNode constructed without one
DefaultHighlightIndex == None

\* the dummy element of get_selector_map's handler and the dummy root of
\* get_dom_state's handler
Dummy == DOMElementNode("a", Attributes(None, None), Some(1), None)
DummyRoot == DOMElementNode("body", Attributes(None, None), DefaultHighlightIndex, None)

\* get_selector_map.  raise_at is None when nothing raises, Some(0) when
\* page.evaluate raises, Some(k) when the loop raises at its k-th element:
\* the entries stored before the exception stay and the handler stores the
\* dummy under key 1.
get_selector_map(context, urls, raise_at) ==
    LET elements == IF raise_at = Some(0) THEN <<>> ELSE evaluate_elements(context, urls)
        stored == {j \in 1..Len(elements) : raise_at = None \/ j < Get(raise_at)}
        keys == {elements[j].index : j \in stored}
        last(key) == CHOOSE j \in stored :
                         /\ elements[j].index = key
                         /\ \A i \in stored : elements[i].index = key => i <= j
        element_node(el) == DOMElementNode(el.tagName, el.attributes, Some(el.index),
                                           Some(el.pageCoordinates))
    IN [key \in keys \cup (IF raise_at = None THEN {} ELSE {1}) |->
           IF raise_at # None /\ key = 1 THEN Dummy
           ELSE element_node(elements[last(key)])]

DOMState(state_url, selector_map) == [url |-> state_url, selector_map |-> selector_map]

\* the faults of a page inspection: none; page.evaluate raises in
\* get_selector_map; its loop raises at the last element; the body of
\* get_dom_state raises; get_updated_browser_state raises after get_dom_state
\* returned
InspectFaults == {"none", "evaluate", "loop", "state", "capture"}

raise_at_of(context, urls, fault) ==
    CASE fault = "evaluate" -> Some(0)
      [] fault = "loop" /\ ContextElements(context, urls) # <<>> ->
             Some(Len(ContextElements(context, urls)))
      [] OTHER -> None

\* get_dom_state: never raises; its handler returns the dummy state
get_dom_state(context, urls, fault) ==
    IF fault = "state"
    THEN DOMState(context_url(context, urls), [key \in {1} |-> DummyRoot])
    ELSE DOMState(context_url(context, urls),
                  get_selector_map(context, urls, raise_at_of(context, urls, fault)))

\* get_updated_browser_state: the DOMState, or None from its handler
get_updated_browser_state(context, urls, fault) ==
    IF fault = "capture" THEN None ELSE Some(get_dom_state(context, urls, fault))

\* ------------------------------------------------------- input devices
\* A call of an input operation of the browser: context.focus, context.click
\* and context.fill (also on an element handle) name their element by a
\* selector, page.mouse.* take page coordinates, page.keyboard.* a key or a
\* text; raised tells that the call raised.
Selector(by, v) == [by |-> by, value |-> v]
NoSelector == Selector("", "")

\* mutant: every call goes to the current context
receiver_context(op) == get_current_context

\* The object a call is made on.  focus, click and fill are called on the
\* context (get_current_context) or on an element handle that
\* context.query_selector returned; every other call is made on the page
\* that get_current_page returns (page.mouse, page.keyboard, page.context).
receiver(op) ==
    IF op \in {"focus", "click", "fill"}
    THEN get_current_context
    ELSE PageContext(get_current_page)

Call(op, selector, x, y, text, raised) ==
    [op |-> op, on |-> receiver(op), selector |-> selector, x |-> x, y |-> y,
     text |-> text, raised |-> raised]

\* str(e) of the exception a call raised
ErrRaised(call) == <<"str(e)", call.op>>

\* the calls issued before an exception leaves the sequence: the planned
\* calls up to the first that raises
issued(plan) ==
    LET stops == {k \in 1..Len(plan) : plan[k].raised}
    IN IF stops = {} THEN plan
       ELSE SubSeq(plan, 1, CHOOSE k \in stops : \A j \in stops : k <= j)
raising(plan) == \E k \in 1..Len(plan) : plan[k].raised

\* context.query_selector: the first element of the document that the
\* selector matches, 0 for None
query_selector(elements, selector) ==
    LET hits == {k \in 1..Len(elements) :
                    elements[k].attributes[selector.by] = Some(selector.value)}
    IN IF hits = {} THEN 0 ELSE CHOOSE k \in hits : \A j \in hits : k <= j

\* the edges of the boxes, as floats
Edges ==
    [r \in Boxes |-> [left |-> FromInt(r.x), right |-> FromInt(r.x + r.width),
                      top |-> FromInt(r.y), bottom |-> FromInt(r.y + r.height)]]

\* the element whose box holds the point (x, y), 0 when there is none
element_at(elements, x, y) ==
    LET holds(r) == /\ ~flt(x, Edges[r].left) /\ ~flt(Edges[r].right, x)
                    /\ ~flt(y, Edges[r].top) /\ ~flt(Edges[r].bottom, y)
        hits == {k \in 1..Len(elements) : holds(elements[k].rect)}
    IN IF hits = {} THEN 0 ELSE CHOOSE k \in hits : \A j \in hits : k <= j

\* what one call does to the form fields of a document.  st holds the
\* content of the fields (vals), the focused field (focus, 0 for none),
\* whether its content is selected and the position of the caret (at); a
\* mouse click puts the caret at position `caret` of the field it hits.
\* A call that raised did nothing, and neither did, to this document, a
\* call made on a child frame.
performed(call, elements, caret, st) ==
    LET target == query_selector(elements, call.selector)
        hit == element_at(elements, call.x, call.y)
        v == st.vals[st.focus]
        min(a, b) == IF a <= b THEN a ELSE b
    IN CASE call.raised -> st
         [] call.on.frame # 0 -> st
         [] call.op \in {"focus", "click"} ->
                [st EXCEPT !.focus = target, !.selected = FALSE,
                           !.at = IF target = 0 THEN 0 ELSE Len(st.vals[target])]
         [] call.op = "fill" ->
                [st EXCEPT !.vals[target] = call.text, !.focus = target,
                           !.selected = FALSE, !.at = Len(call.text)]
         [] call.op = "mouse.click" ->
                [st EXCEPT !.focus = hit, !.selected = FALSE,
                           !.at = IF hit = 0 THEN 0 ELSE min(caret, Len(st.vals[hit]))]
         [] call.op = "keyboard.press" /\ st.focus = 0 -> st
         [] call.op = "keyboard.press" /\ call.text = <<"Control+a">> ->
                [st EXCEPT !.selected = TRUE]
         [] call.op = "keyboard.press" /\ call.text = <<"Backspace">> ->
                IF st.selected
                THEN [st EXCEPT !.vals[st.focus] = <<>>, !.selected = FALSE, !.at = 0]
                ELSE IF st.at = 0 THEN st
                ELSE [st EXCEPT !.vals[st.focus] =
                                    SubSeq(v, 1, st.at - 1) \o SubSeq(v, st.at + 1, Len(v)),
                                !.at = st.at - 1]
         [] call.op = "keyboard.type" /\ st.focus = 0 -> st
         [] call.op = "keyboard.type" ->
                IF st.selected
                THEN [st EXCEPT !.vals[st.focus] = call.text, !.selected = FALSE,
                                !.at = Len(call.text)]
                ELSE [st EXCEPT !.vals[st.focus] =
                                    SubSeq(v, 1, st.at) \o call.text
                                        \o SubSeq(v, st.at + 1, Len(v)),
                                !.at = st.at + Len(call.text)]
         [] OTHER -> st

RECURSIVE perform(_, _, _, _)
\* the content of the fields after the calls, one after the other
perform(sequence, elements, caret, st) ==
    IF sequence = <<>> THEN st.vals
    ELSE perform(Tail(sequence), elements, caret,
                 performed(Head(sequence), elements, caret, st))

\* --------------------------------------------- HumanInterventionActions
\* mutant: a request starts in_progress
InterventionRequest_in_progress(id, timeout_seconds) ==
    [id |-> id, status |-> IN_PROGRESS, created_at |-> now, completed_at |-> None,
     timeout_seconds |-> timeout_seconds, user_message |-> None]

\* InterventionRequest as request_intervention constructs it: status and
\* created_at take their defaults (PENDING, datetime.now())
InterventionRequest(id, timeout_seconds) ==
    [id |-> id, status |-> PENDING, created_at |-> now, completed_at |-> None,
     timeout_seconds |-> timeout_seconds, user_message |-> None]

\* str(uuid.uuid4()): an id no earlier call generated
uuid4 == Len(interventions) + 1

\* mutant: the request is built but never stored
active_store_skips(intervention_id) == active_interventions

\* _active_interventions[intervention_id] = intervention
active_store(intervention_id) == active_interventions \cup {intervention_id}

\* mutant: the lookup finds every request ever created, evicted or not
active_get_any(intervention_id) ==
    IF intervention_id \in 1..Len(interventions) THEN Some(intervention_id) ELSE None

\* mutant: the lookup no longer finds a request past its deadline
active_get_unexpired(intervention_id) ==
    IF /\ intervention_id \in active_interventions
       /\ now - interventions[intervention_id].created_at
              <= interventions[intervention_id].timeout_seconds * TicksPerSecond
    THEN Some(intervention_id) ELSE None

\* _active_interventions.get(intervention_id)
active_get(intervention_id) ==
    IF intervention_id \in active_interventions THEN Some(intervention_id) ELSE None

\* mutant: the request is not evicted
active_del_keeps(intervention_id) == active_interventions

\* del _active_interventions[intervention_id]
active_del(intervention_id) == active_interventions \ {intervention_id}

\* mutant: the comparison is the wrong way round
elapsed_exceeds_reversed(elapsed, timeout_seconds) ==
    timeout_seconds * TicksPerSecond > elapsed

\* mutant: whole seconds (timedelta.seconds) instead of total_seconds()
elapsed_exceeds_whole_seconds(elapsed, timeout_seconds) ==
    (elapsed \div TicksPerSecond) > timeout_seconds

\* (datetime.now() - created_at).total_seconds() > timeout_seconds, with the
\* elapsed time in ticks
elapsed_exceeds(elapsed, timeout_seconds) ==
    elapsed > timeout_seconds * TicksPerSecond

\* mutant: the difference is not clamped at 0
time_remaining_signed(elapsed, timeout_seconds) ==
    timeout_seconds * TicksPerSecond - elapsed

\* max(0, timeout_seconds - elapsed), in ticks
time_remaining_of(elapsed, timeout_seconds) ==
    IF timeout_seconds * TicksPerSecond - elapsed > 0
    THEN timeout_seconds * TicksPerSecond - elapsed ELSE 0

\* _display_intervention_ui: page.evaluate replaces the notice of the page
display_intervention_ui(page, id) == [overlay EXCEPT ![page] = Some(id)]

\* _remove_intervention_ui: page.evaluate removes the notice; a failure of
\* the evaluate is swallowed and leaves the page as it was
remove_intervention_ui(page, evaluate_raises) ==
    IF evaluate_raises THEN overlay ELSE [overlay EXCEPT ![page] = None]

\* mutant: the success flag is ignored
completion_status_completed(success) == COMPLETED

\* the terminal status complete_intervention assigns
completion_status(success) == IF success THEN COMPLETED ELSE FAILED

\* mutant: the request created first is taken
latest_intervention_oldest ==
    CHOOSE i \in active_interventions :
        \A j \in active_interventions :
            interventions[i].created_at <= interventions[j].created_at

\* max(values, key=created_at): the first of the greatest, in insertion order
latest_intervention ==
    CHOOSE i \in active_interventions :
        \A j \in active_interventions :
            \/ interventions[j].created_at < interventions[i].created_at
            \/ interventions[j].created_at = interventions[i].created_at /\ i <= j

RequestFaults == {"none", "screenshot", "overlay"}

request_intervention(timeout_seconds, take_screenshot, fault) ==
    LET failed == BrowserActionResult("request_intervention", FALSE, MsgRequestFailed,
                                      ErrException, NoContent)
    IN
    /\ fault = "screenshot" => take_screenshot
    /\ IF get_current_page_raises \/ fault = "screenshot"
       THEN /\ result' = failed
            /\ UNCHANGED <<tabVars, domVars, overlay, hiVars, now, jar, tasks>>
       ELSE LET intervention_id == uuid4
                page == get_current_page
            IN /\ intervention_id <= MaxIds
               /\ now < MaxTime
               /\ interventions' = Append(interventions,
                      InterventionRequest(intervention_id, timeout_seconds))
               /\ active_interventions' = active_store(intervention_id)
               /\ now' = now + 1
               /\ IF fault = "overlay"
                  THEN /\ result' = failed
                       /\ UNCHANGED overlay
                  ELSE /\ overlay' = display_intervention_ui(page, intervention_id)
                       /\ result' = BrowserActionResult("request_intervention", TRUE,
                              MsgRequested, NoError,
                              Content(intervention_id, PENDING, None))
               /\ UNCHANGED <<tabVars, domVars, jar, tasks>>

complete_intervention(intervention_id, success, user_message, evaluate_raises) ==
    IF active_get(intervention_id) = None
    THEN /\ result' = BrowserActionResult("complete_intervention", FALSE, MsgNotFound,
                          ErrNoIntervention(intervention_id), NoContent)
         /\ UNCHANGED <<tabVars, domVars, overlay, hiVars, now, jar, tasks>>
    ELSE /\ interventions' = [interventions EXCEPT
                ![intervention_id].status = completion_status(success),
                ![intervention_id].completed_at = Some(now),
                ![intervention_id].user_message = user_message]
         /\ IF get_current_page_raises
            THEN /\ result' = BrowserActionResult("complete_intervention", FALSE,
                                  MsgCompleteFailed, ErrException, NoContent)
                 /\ UNCHANGED <<active_interventions, overlay>>
            ELSE /\ overlay' = remove_intervention_ui(get_current_page, evaluate_raises)
                 /\ active_interventions' = active_del(intervention_id)
                 /\ result' = BrowserActionResult("complete_intervention", TRUE,
                        MsgCompleted, NoError,
                        Content(intervention_id,
                                interventions'[intervention_id].status, None))
         /\ UNCHANGED <<tabVars, domVars, now, jar, tasks>>

cancel_intervention(intervention_id, evaluate_raises) ==
    IF active_get(intervention_id) = None
    THEN /\ result' = BrowserActionResult("cancel_intervention", FALSE, MsgNotFound,
                          ErrNoIntervention(intervention_id), NoContent)
         /\ UNCHANGED <<tabVars, domVars, overlay, hiVars, now, jar, tasks>>
    ELSE /\ interventions' = [interventions EXCEPT
                ![intervention_id].status = CANCELLED,
                ![intervention_id].completed_at = Some(now)]
         /\ IF get_current_page_raises
            THEN /\ result' = BrowserActionResult("cancel_intervention", FALSE,
                                  MsgCancelFailed, ErrException, NoContent)
                 /\ UNCHANGED <<active_interventions, overlay>>
            ELSE /\ overlay' = remove_intervention_ui(get_current_page, evaluate_raises)
                 /\ active_interventions' = active_del(intervention_id)
                 /\ result' = BrowserActionResult("cancel_intervention", TRUE,
                        MsgCancelled, NoError,
                        Content(intervention_id,
                                interventions'[intervention_id].status, None))
         /\ UNCHANGED <<tabVars, domVars, now, jar, tasks>>

\* the timeout check and the reply of get_intervention_status, for the
\* request it selected.  The handler reads the clock once for the check and
\* once more for time_remaining: the second reading (again) is the same
\* tick or the next.
status_of_selected(intervention_id, evaluate_raises) ==
    LET intervention == interventions[intervention_id]
        elapsed == now - intervention.created_at
        timed_out == /\ intervention.status = PENDING
                     /\ elapsed_exceeds(elapsed, intervention.timeout_seconds)
    IN IF timed_out
       THEN /\ interventions' = [interventions EXCEPT
                   ![intervention_id].status = TIMEOUT,
                   ![intervention_id].completed_at = Some(now)]
            /\ IF get_current_page_raises
               THEN /\ result' = BrowserActionResult("get_intervention_status", FALSE,
                                     MsgStatusFailed, ErrException, NoContent)
                    /\ UNCHANGED <<active_interventions, overlay>>
               ELSE /\ overlay' = remove_intervention_ui(get_current_page,
                                                         evaluate_raises)
                    /\ active_interventions' = active_del(intervention_id)
                    /\ result' = BrowserActionResult("get_intervention_status", TRUE,
                           MsgStatus, NoError,
                           Content(intervention_id, TIMEOUT, None))
       ELSE \E again \in {now, now + 1} :
            /\ result' = BrowserActionResult("get_intervention_status", TRUE,
                   MsgStatus, NoError,
                   Content(intervention_id, intervention.status,
                       IF intervention.status = PENDING
                       THEN Some(time_remaining_of(again - intervention.created_at,
                                                   intervention.timeout_seconds))
                       ELSE None))
            /\ UNCHANGED <<hiVars, overlay>>

\* intervention_id is None (the latest active request) or Some(id)
get_intervention_status(intervention_id, evaluate_raises) ==
    /\ IF intervention_id = None
       THEN IF active_interventions = {}
            THEN /\ result' = BrowserActionResult("get_intervention_status", FALSE,
                                  MsgNoActive, ErrNoActive, NoContent)
                 /\ UNCHANGED <<hiVars, overlay>>
            ELSE status_of_selected(latest_intervention, evaluate_raises)
       ELSE IF active_get(Get(intervention_id)) = None
            THEN /\ result' = BrowserActionResult("get_intervention_status", FALSE,
                                  MsgNotFound,
                                  ErrNoIntervention(Get(intervention_id)), NoContent)
                 /\ UNCHANGED <<hiVars, overlay>>
            ELSE status_of_selected(Get(intervention_id), evaluate_raises)
    /\ UNCHANGED <<tabVars, domVars, now, jar, tasks>>

\* The checks of auto_detect_intervention_needed, in the order the handler
\* runs them, each with the recommendation it adds.
InterventionTypes ==
    <<"captcha", "login_required", "security_check", "anti_bot_protection",
      "cookies_consent">>
Recommendation(type) ==
    CASE type = "captcha" -> "Please solve the CAPTCHA verification"
      [] type = "login_required" -> "Please complete the login process"
      [] type = "security_check" -> "Please complete the security verification"
      [] type = "anti_bot_protection" -> "Please wait for anti-bot protection to complete"
      [] OTHER -> "Please accept or decline cookie consent"

\* What a page holds for a detector: nothing; an element that one of the
\* detector's selectors matches ("element"); one of its keywords in the text
\* of the body, outside any such element ("text"); both; or a page on which
\* a call of the detector raises before it found anything ("raises").
Marks == {"nothing", "element", "text", "both", "raises"}

\* the confidence, in tenths, of a match by selector and of a match by
\* keyword, 0 where the detector has no such stage
selector_confidence(type) ==
    CASE type = "captcha" -> 9
      [] type = "login_required" -> 8
      [] type = "security_check" -> 0
      [] type = "anti_bot_protection" -> 9
      [] OTHER -> 8
keyword_confidence(type) ==
    CASE type = "captcha" -> 7
      [] type = "login_required" -> 6
      [] type = "security_check" -> 8
      [] type = "anti_bot_protection" -> 7
      [] OTHER -> 0

\* mutant: the keywords are looked for before the selectors
detect_keywords_first(type, shows) ==
    IF shows[type] \in {"text", "both"} /\ keyword_confidence(type) > 0
    THEN [found |-> TRUE, confidence |-> keyword_confidence(type)]
    ELSE IF shows[type] \in {"element", "both"} /\ selector_confidence(type) > 0
    THEN [found |-> TRUE, confidence |-> selector_confidence(type)]
    ELSE [found |-> FALSE, confidence |-> 0]

\* _detect_captcha, _detect_login_required, ...: (found, confidence) for the
\* page, the confidence in tenths.  The selectors are tried first, then the
\* keywords; an exception is swallowed and gives (False, 0.0).
detect(type, shows) ==
    IF shows[type] \in {"element", "both"} /\ selector_confidence(type) > 0
    THEN [found |-> TRUE, confidence |-> selector_confidence(type)]
    ELSE IF shows[type] \in {"text", "both"} /\ keyword_confidence(type) > 0
    THEN [found |-> TRUE, confidence |-> keyword_confidence(type)]
    ELSE [found |-> FALSE, confidence |-> 0]

\* mutant: a check runs whether it is enabled or not
detected_unconditionally(checks, shows) ==
    SelectSeq(InterventionTypes, LAMBDA t : detect(t, shows).found)

\* detected_types: the enabled checks whose detector found its marks
detected(checks, shows) ==
    SelectSeq(InterventionTypes, LAMBDA t : t \in checks /\ detect(t, shows).found)

\* the content of the reply of auto_detect_intervention_needed
Detection(checks, shows) ==
    LET detected_types == detected(checks, shows)
    IN [intervention_needed |-> Len(detected_types) > 0,
        detected_types |-> detected_types,
        recommendations |-> [k \in 1..Len(detected_types) |->
                                Recommendation(detected_types[k])],
        confidence_scores |-> [t \in {detected_types[k] : k \in 1..Len(detected_types)} |->
                                  detect(t, shows).confidence]]

\* mutant: a detection forgets the active requests
auto_detect_forgets(checks, shows, page_raises) ==
    /\ result' = IF get_current_page_raises \/ page_raises
                 THEN BrowserActionResult("auto_detect_intervention_needed", FALSE,
                          MsgAutoDetectFailed, ErrException, NoContent)
                 ELSE [BrowserActionResult("auto_detect_intervention_needed", TRUE,
                           MsgAutoDetect, NoError, NoContent)
                       EXCEPT !.detection = Some(Detection(checks, shows))]
    /\ active_interventions' = {}
    /\ UNCHANGED <<tabVars, domVars, overlay, interventions, now, jar, tasks>>

\* detection only reads the page; checks is the set of the check_* flags
\* that are set; page_raises is a page call outside the detectors
\* (page.title, query_selector, text_content) that raises
auto_detect_intervention_needed(checks, shows, page_raises) ==
    /\ result' = IF get_current_page_raises \/ page_raises
                 THEN BrowserActionResult("auto_detect_intervention_needed", FALSE,
                          MsgAutoDetectFailed, ErrException, NoContent)
                 ELSE [BrowserActionResult("auto_detect_intervention_needed", TRUE,
                           MsgAutoDetect, NoError, NoContent)
                       EXCEPT !.detection = Some(Detection(checks, shows))]
    /\ UNCHANGED <<tabVars, domVars, overlay, hiVars, now, jar, tasks>>

\* time passes
Tick ==
    /\ now < MaxTime
    /\ now' = now + 1
    /\ UNCHANGED <<tabVars, domVars, overlay, hiVars, result, jar, tasks>>

\* ------------------------------------------------------ results of actions
\* mutant: the outermost handler lets the exception go
outer_except_reraises(action, message) == Raised(action)

\* the handler of the outermost try of an action: except Exception as e
\* returns a failure that carries str(e) and no page state
outer_except(action, message) ==
    build_action_result(action, FALSE, message, None, ErrException)

\* an action left through its outermost handler
caught(action, message) == result' = outer_except(action, message)

\* an early return of an action with the DOMState it holds, if any
returned(action, message, state, error) ==
    result' = build_action_result(action, FALSE, message, state, error)

\* the end of an action: get_updated_browser_state on the context, then
\* build_action_result; urls is the url of each page when the state is
\* taken.  The result takes only the url from the state, which is the same
\* whatever fault get_dom_state met, so the faults drawn are none and the
\* one that leaves no state.
refreshed(action, success, message, error, context, urls) ==
    \E inspect \in {"none", "capture"} :
        result' = build_action_result(action, success, message,
                      get_updated_browser_state(context, urls, inspect), error)

\* ------------------------------------------------- TabManagementActions
\* tab_index if it is not None, else page_id
resolve_page_id(tab_index, page_id) ==
    IF tab_index # None THEN tab_index ELSE page_id

\* page_id < 0 or page_id >= len(pages)
invalid_page_id(page_id) == page_id < 0 \/ page_id >= Len(pages)

\* mutant: the guard lets the last tab go
is_last_tab_off_by_one == Len(pages) < 1

\* len(pages) <= 1
is_last_tab == Len(pages) <= 1

\* pages.pop(page_id)
pop(seq, page_id) ==
    [k \in 1..(Len(seq) - 1) |-> IF k <= page_id THEN seq[k] ELSE seq[k + 1]]

\* mutant: the pointer falls back to the first tab
adjusted_index_first(index, page_id) ==
    IF index >= page_id THEN 0 ELSE index

\* mutant: the pointer moves down whichever tab was closed
adjusted_index_always(index, page_id) ==
    IF index - 1 > 0 THEN index - 1 ELSE 0

\* the pointer after pages.pop(page_id)
adjusted_index(index, page_id) ==
    IF index >= page_id
    THEN (IF index - 1 > 0 THEN index - 1 ELSE 0)
    ELSE index

\* mutant: the frame survives the switch
switch_tab_keeps_frame(tab_index, page_id) ==
    LET id == resolve_page_id(tab_index, page_id)
    IN /\ IF id = None
          THEN /\ returned("switch_tab", MsgNoTabIndex, None, ErrTabIndexRequired)
               /\ UNCHANGED tabVars
          ELSE IF invalid_page_id(Get(id))
          THEN /\ returned("switch_tab", MsgInvalidTab, None, ErrTabIndexRange)
               /\ UNCHANGED tabVars
          ELSE /\ current_page_index' = Get(id)
               /\ refreshed("switch_tab", TRUE, MsgSwitched, NoError,
                            PageContext(pages[Get(id) + 1]), url)
               /\ UNCHANGED <<pages, next_page, current_frame>>
       /\ UNCHANGED <<overlay, hiVars, now, url, value, calls, jar, tasks>>

\* mutant: a refused switch forgets the selected frame
switch_tab_drops_frame(tab_index, page_id) ==
    LET id == resolve_page_id(tab_index, page_id)
    IN /\ IF id = None
          THEN /\ returned("switch_tab", MsgNoTabIndex, None, ErrTabIndexRequired)
               /\ UNCHANGED tabVars
          ELSE IF invalid_page_id(Get(id))
          THEN /\ returned("switch_tab", MsgInvalidTab, None, ErrTabIndexRange)
               /\ current_frame' = None
               /\ UNCHANGED <<pages, current_page_index, next_page>>
          ELSE /\ current_page_index' = Get(id)
               /\ current_frame' = None
               /\ refreshed("switch_tab", TRUE, MsgSwitched, NoError,
                            PageContext(pages[Get(id) + 1]), url)
               /\ UNCHANGED <<pages, next_page>>
       /\ UNCHANGED <<overlay, hiVars, now, url, value, calls, jar, tasks>>

switch_tab(tab_index, page_id) ==
    LET id == resolve_page_id(tab_index, page_id)
    IN /\ IF id = None
          THEN /\ returned("switch_tab", MsgNoTabIndex, None, ErrTabIndexRequired)
               /\ UNCHANGED tabVars
          ELSE IF invalid_page_id(Get(id))
          THEN /\ returned("switch_tab", MsgInvalidTab, None, ErrTabIndexRange)
               /\ UNCHANGED tabVars
          ELSE /\ current_page_index' = Get(id)
               /\ current_frame' = None
               /\ refreshed("switch_tab", TRUE, MsgSwitched, NoError,
                            PageContext(pages[Get(id) + 1]), url)
               /\ UNCHANGED <<pages, next_page>>
       /\ UNCHANGED <<overlay, hiVars, now, url, value, calls, jar, tasks>>

OpenFaults == {"none", "new_page", "goto", "idle"}

\* mutant: the new page is appended but the pointer stays where it was
open_tab_keeps_pointer(to, fault) ==
    /\ IF fault = "new_page"
       THEN /\ caught("open_tab", MsgUnbound)
            /\ UNCHANGED <<tabVars, url, value>>
       ELSE /\ next_page < MaxPageHandles
            /\ next_page' = next_page + 1
            /\ IF fault = "goto"
               THEN /\ refreshed("open_tab", FALSE, MsgOpenFailed, ErrException,
                                 PageContext(next_page'), url)
                    /\ UNCHANGED <<pages, current_page_index, current_frame, url, value>>
               ELSE /\ url' = [url EXCEPT ![next_page'] = to]
                    /\ value' = [value EXCEPT ![next_page'] = InitialValue(to)]
                    /\ pages' = Append(pages, next_page')
                    /\ current_frame' = None
                    /\ refreshed("open_tab", TRUE, MsgOpened, NoError,
                                 PageContext(next_page'), url')
                    /\ UNCHANGED current_page_index
    /\ UNCHANGED <<overlay, hiVars, now, calls, jar, tasks>>

\* browser.new_page raising leaves `page` unbound, and the state refresh after
\* the inner handler then raises into the outer handler; page.goto raising
\* leaves the new page out of the registry, and the state refresh is taken
\* on that page; the wait for network idle raising is swallowed
open_tab(to, fault) ==
    /\ IF fault = "new_page"
       THEN /\ caught("open_tab", MsgUnbound)
            /\ UNCHANGED <<tabVars, url, value>>
       ELSE /\ next_page < MaxPageHandles
            /\ next_page' = next_page + 1
            /\ IF fault = "goto"
               THEN /\ refreshed("open_tab", FALSE, MsgOpenFailed, ErrException,
                                 PageContext(next_page'), url)
                    /\ UNCHANGED <<pages, current_page_index, current_frame, url, value>>
               ELSE /\ url' = [url EXCEPT ![next_page'] = to]
                    /\ value' = [value EXCEPT ![next_page'] = InitialValue(to)]
                    /\ pages' = Append(pages, next_page')
                    /\ current_page_index' = Len(pages') - 1
                    /\ current_frame' = None
                    /\ refreshed("open_tab", TRUE, MsgOpened, NoError,
                                 PageContext(next_page'), url')
    /\ UNCHANGED <<overlay, hiVars, now, calls, jar, tasks>>

\* after the inner handler, get_current_page raises into the outer handler
\* when no page is left
close_tab(tab_index, page_id, close_raises) ==
    LET id == resolve_page_id(tab_index, page_id)
    IN /\ IF id = None
          THEN /\ returned("close_tab", MsgNoTabIndex, None, ErrTabIndexRequired)
               /\ UNCHANGED tabVars
          ELSE IF invalid_page_id(Get(id))
          THEN /\ returned("close_tab", MsgInvalidTab, None, ErrTabIndexRange)
               /\ UNCHANGED tabVars
          ELSE IF is_last_tab
          THEN /\ returned("close_tab", MsgLastTab, None, ErrLastTab)
               /\ UNCHANGED tabVars
          ELSE IF close_raises
          THEN /\ refreshed("close_tab", FALSE, MsgCloseFailed, ErrException,
                            PageContext(get_current_page), url)
               /\ UNCHANGED tabVars
          ELSE /\ pages' = pop(pages, Get(id))
               /\ current_page_index' = adjusted_index(current_page_index, Get(id))
               /\ current_frame' = None
               /\ IF pages' = <<>>
                  THEN caught("close_tab", MsgNoPages)
                  ELSE refreshed("close_tab", TRUE, MsgClosed, NoError,
                                 PageContext(pages'[current_page_index' + 1]), url)
               /\ UNCHANGED next_page
       /\ UNCHANGED <<overlay, hiVars, now, url, value, calls, jar, tasks>>

\* ------------------------------------------------------------ FrameActions
\* The frames of a page, main frame first (page.frames), each with the name
\* and id of its iframe element.  The content of a page is an input of the
\* model: three layouts, by page handle.
MainFrame == [name |-> "", id |-> ""]
PageFrames(p) ==
    CASE p = 1 -> <<MainFrame, [name |-> "a", id |-> ""], [name |-> "", id |-> "b"]>>
      [] p = 2 -> <<MainFrame>>
      [] OTHER -> <<MainFrame, [name |-> "", id |-> "b"]>>

FrameSelectors == {"", "0", "1", "7", "-1", "a", "b", "zz"}

\* int(frame_selector): Some(n), or None where int() raises ValueError
int(frame_selector) ==
    CASE frame_selector = "0" -> Some(0)
      [] frame_selector = "1" -> Some(1)
      [] frame_selector = "2" -> Some(2)
      [] frame_selector = "7" -> Some(7)
      [] frame_selector = "-1" -> Some(-1)
      [] OTHER -> None

\* page.frame(name=...): the index of the first frame of that name, or None
frame_by_name(p, name) ==
    LET hits == {i \in 1..Len(PageFrames(p)) : PageFrames(p)[i].name = name}
    IN IF hits = {} THEN None
       ELSE Some((CHOOSE i \in hits : \A j \in hits : i <= j) - 1)

\* page.query_selector("iframe[name='s'], iframe[id='s'], iframe"): the first
\* iframe element, in document order, that matches any selector of the list
query_iframe(p, selector) ==
    LET hits == {i \in 2..Len(PageFrames(p)) :
                    \/ PageFrames(p)[i].name = selector
                    \/ PageFrames(p)[i].id = selector
                    \/ TRUE}
    IN IF hits = {} THEN None
       ELSE Some((CHOOSE i \in hits : \A j \in hits : i <= j) - 1)

FrameFaults == {"none", "query", "no_content"}

\* the early returns carry no page state; a failure caught by the inner
\* handler is followed by the state refresh on the context still current
switch_to_frame(frame_selector, fault) ==
    LET fail(message, error) ==
            /\ returned("switch_to_frame", message, None, error)
            /\ UNCHANGED current_frame
        switch(page, index) ==
            /\ current_frame' = Some(Frame(page, index))
            /\ refreshed("switch_to_frame", TRUE, MsgFrameSwitched, NoError,
                         Frame(page, index), url)
    IN
    /\ IF frame_selector = ""
       THEN fail(MsgNoFrameSelector, ErrFrameRequired)
       ELSE IF get_current_page_raises
       THEN caught("switch_to_frame", MsgNoPages) /\ UNCHANGED current_frame
       ELSE LET page == get_current_page
                frame_index == int(frame_selector)
                named == frame_by_name(page, frame_selector)
                element == query_iframe(page, frame_selector)
            IN IF frame_index # None
               THEN IF Get(frame_index) < 0 \/ Get(frame_index) >= Len(PageFrames(page))
                    THEN fail(MsgInvalidFrame, ErrFrameRange)
                    ELSE switch(page, Get(frame_index))
               ELSE IF named # None
               THEN switch(page, Get(named))
               ELSE IF fault = "query"
               THEN /\ refreshed("switch_to_frame", FALSE, MsgFrameFailed, ErrException,
                                 get_current_context, url)
                    /\ UNCHANGED current_frame
               ELSE IF element = None
               THEN fail(MsgFrameNotFound, ErrFrameNotFound)
               ELSE IF fault = "no_content"
               THEN fail(MsgNoFrameContent, ErrFrameContent)
               ELSE switch(page, Get(element))
    /\ UNCHANGED <<pages, current_page_index, next_page, overlay, hiVars, now,
                   url, value, calls, jar, tasks>>

switch_to_main_frame ==
    /\ current_frame' = None
    /\ IF get_current_page_raises
       THEN caught("switch_to_main_frame", MsgNoPages)
       ELSE refreshed("switch_to_main_frame", TRUE, MsgMainFrame, NoError,
                      PageContext(get_current_page), url)
    /\ UNCHANGED <<pages, current_page_index, next_page, overlay, hiVars, now,
                   url, value, calls, jar, tasks>>

\* ------------------------------------------------------ NavigationActions
\* the page shows the document at `to`: its form fields are as loaded and
\* the elements a script added to the old document are gone
load(page, to) ==
    /\ url' = [url EXCEPT ![page] = to]
    /\ value' = [value EXCEPT ![page] = InitialValue(to)]
    /\ overlay' = [overlay EXCEPT ![page] = None]

\* page.goto raises; the wait for network idle raises (swallowed)

\* mutant: a wait for network idle that raises fails the navigation
navigate_to_idle_fatal(to, fault) ==
    /\ IF get_current_page_raises
       THEN /\ caught("navigate_to", MsgNoPages)
            /\ UNCHANGED <<url, value, overlay>>
       ELSE LET page == get_current_page
            IN IF fault = "goto"
               THEN /\ refreshed("navigate_to", FALSE, "Failed to navigate to", ErrException,
                                 PageContext(page), url)
                    /\ UNCHANGED <<url, value, overlay>>
               ELSE /\ load(page, to)
                    /\ refreshed("navigate_to", fault # "idle",
                                 IF fault = "idle" THEN "Failed to navigate to"
                                 ELSE "Navigated to",
                                 IF fault = "idle" THEN ErrException ELSE NoError,
                                 PageContext(page), url')
    /\ UNCHANGED <<tabVars, hiVars, now, calls, jar, tasks>>

\* navigate_to: goto with the hard timeout, then the wait for network idle
\* inside its own try, then the state of the page
navigate_to(to, fault) ==
    /\ IF get_current_page_raises
       THEN /\ caught("navigate_to", MsgNoPages)
            /\ UNCHANGED <<url, value, overlay>>
       ELSE LET page == get_current_page
            IN IF fault = "goto"
               THEN /\ refreshed("navigate_to", FALSE, "Failed to navigate to", ErrException,
                                 PageContext(page), url)
                    /\ UNCHANGED <<url, value, overlay>>
               ELSE /\ load(page, to)
                    /\ refreshed("navigate_to", TRUE, "Navigated to", NoError,
                                 PageContext(page), url')
    /\ UNCHANGED <<tabVars, hiVars, now, calls, jar, tasks>>

\* page.goto raises; wait_for_selector, fill or press raises on the Google
\* page; the wait for network idle raises after the search was submitted

search_google(fault) ==
    /\ IF get_current_page_raises
       THEN /\ caught("search_google", MsgNoPages)
            /\ UNCHANGED <<url, value, overlay>>
       ELSE LET page == get_current_page
            IN IF fault = "goto"
               THEN /\ refreshed("search_google", FALSE, "Failed to search Google for", ErrException,
                                 PageContext(page), url)
                    /\ UNCHANGED <<url, value, overlay>>
               ELSE IF fault = "input"
               THEN /\ load(page, "https://www.google.com")
                    /\ refreshed("search_google", FALSE, "Failed to search Google for", ErrException,
                                 PageContext(page), url')
               ELSE IF fault = "idle"
               THEN /\ load(page, "https://www.google.com/search")
                    /\ refreshed("search_google", FALSE, "Failed to search Google for", ErrException,
                                 PageContext(page), url')
               ELSE /\ load(page, "https://www.google.com/search")
                    /\ refreshed("search_google", TRUE, "Searched Google for", NoError,
                                 PageContext(page), url')
    /\ UNCHANGED <<tabVars, hiVars, now, calls, jar, tasks>>

\* go_back, go_forward and refresh: the browser's history decides the url
\* `to` the page lands on.  The fault is the step itself raising ("raise")
\* or, for go_back, the wait for network idle that follows it in a try of
\* its own ("idle").

history_step(action, done, failed, to, fault) ==
    /\ IF get_current_page_raises
       THEN /\ caught(action, MsgNoPages)
            /\ UNCHANGED <<url, value, overlay>>
       ELSE LET page == get_current_page
            IN IF fault = "raise"
               THEN /\ refreshed(action, FALSE, failed, ErrException,
                                 PageContext(page), url)
                    /\ UNCHANGED <<url, value, overlay>>
               ELSE /\ load(page, to)
                    /\ refreshed(action, TRUE, done, NoError, PageContext(page), url')
    /\ UNCHANGED <<tabVars, hiVars, now, calls, jar, tasks>>

go_back(to, fault) == history_step("go_back", "Navigated back to previous page", "Failed to navigate back", to, fault)
go_forward(to, fault) ==
    history_step("go_forward", "Navigated forward to next page", "Failed to go forward", to, fault)
refresh(fault) ==
    history_step("refresh", "Page refreshed successfully", "Failed to refresh page",
                 IF get_current_page_raises THEN BlankUrl ELSE url[get_current_page],
                 fault)

\* wait: the wait for network idle, in the handler's try, then the state of
\* the page
wait(fault) ==
    /\ IF get_current_page_raises
       THEN caught("wait", MsgNoPages)
       ELSE IF fault = "idle"
       THEN refreshed("wait", FALSE, "Failed to wait for page to load", ErrException,
                      PageContext(get_current_page), url)
       ELSE refreshed("wait", TRUE, "Waited for page to load", NoError,
                      PageContext(get_current_page), url)
    /\ UNCHANGED <<tabVars, overlay, hiVars, now, url, value, calls, jar, tasks>>

\* ---------------------------------------------------------- ContentActions
\* PDFUtils.generate_pdf: the base64 text of the PDF, "" when page.pdf
\* raised or returned nothing; a wait for network idle that raises is
\* followed by a sleep and the PDF is generated all the same
PdfFaults == {"none", "idle", "pdf", "empty"}
generate_pdf(fault) == IF fault \in {"pdf", "empty"} THEN "" ELSE "base64"

\* save_pdf, which the generate_pdf and get_page_pdf routes call too
save_pdf(fault) ==
    /\ IF get_current_page_raises
       THEN caught("save_pdf", MsgNoPages)
       ELSE IF generate_pdf(fault) # ""
       THEN refreshed("save_pdf", TRUE, "Saved page as PDF", NoError,
                      PageContext(get_current_page), url)
       ELSE refreshed("save_pdf", FALSE, "Failed to save page as PDF",
                      <<"PDF generation failed">>, PageContext(get_current_page), url)
    /\ UNCHANGED <<tabVars, overlay, hiVars, now, url, value, calls, jar, tasks>>

\* ------------------------------------------------------ InteractionActions
\* the selector click_element and input_text build for an element of the
\* selector map: "#id" when it has a non-empty id, else "[name='...']" when
\* it has a non-empty name, else none
element_selector(element) ==
    IF element.attributes.id # None /\ element.attributes.id # Some("")
    THEN Some(Selector("id", Get(element.attributes.id)))
    ELSE IF element.attributes.name # None /\ element.attributes.name # Some("")
    THEN Some(Selector("name", Get(element.attributes.name)))
    ELSE None

\* mutant: the centre is taken for the corner of the box
centre_corner(c) == [x |-> FromInt(c.x), y |-> FromInt(c.y)]

\* x + (width / 2), y + (height / 2) of a box
centre(c) ==
    [x |-> fadd(FromInt(c.x), fdiv(FromInt(c.width), 2)),
     y |-> fadd(FromInt(c.y), fdiv(FromInt(c.height), 2))]
\* the centres of the boxes of the documents
Centres == [c \in Boxes |-> centre(c)]

\* the centre of page_coordinates, when the element has them
element_coordinates(element) ==
    IF element.page_coordinates = None THEN None
    ELSE Some(Centres[Get(element.page_coordinates)])

\* What the body of a handler between get_dom_state and the state refresh
\* comes to: the calls it issued and the outcome it goes on with (run_done),
\* or a result returned at once, with the DOMState the element was looked up
\* in (run_stop)
run_done(sequence, success, message, error) ==
    [early |-> FALSE, calls |-> sequence, success |-> success,
     message |-> message, error |-> error]
run_stop(message, error) ==
    [early |-> TRUE, calls |-> <<>>, success |-> FALSE,
     message |-> message, error |-> error]

\* mutant: a click on the handle that raised is tried again
click_by_selector_again(elements, selector, faults) ==
    LET handle_click == Call("click", selector, Zero, Zero, <<>>, "click" \in faults)
    IN IF "query" \in faults
       THEN run_done(<<>>, FALSE, "Failed to click element with selector",
                     <<"str(e)", "query_selector">>)
       ELSE IF query_selector(elements, selector) = 0
       THEN run_stop("Element with selector not found",
                     <<"Element with selector not found", selector>>)
       ELSE IF handle_click.raised
       THEN run_done(<<handle_click, handle_click>>, FALSE,
                     "Failed to click element with selector", ErrRaised(handle_click))
       ELSE run_done(<<handle_click>>, TRUE, "Clicked element with selector", NoError)

\* click_element with a CSS selector.  faults names the calls that raise.
click_by_selector(elements, selector, faults) ==
    LET handle_click == Call("click", selector, Zero, Zero, <<>>, "click" \in faults)
    IN IF "query" \in faults
       THEN run_done(<<>>, FALSE, "Failed to click element with selector",
                     <<"str(e)", "query_selector">>)
       ELSE IF query_selector(elements, selector) = 0
       THEN run_stop("Element with selector not found",
                     <<"Element with selector not found", selector>>)
       ELSE IF handle_click.raised
       THEN run_done(<<handle_click>>, FALSE, "Failed to click element with selector",
                     ErrRaised(handle_click))
       ELSE run_done(<<handle_click>>, TRUE, "Clicked element with selector", NoError)

\* mutant: the error of the fallback takes the place of the error of the
\* click by selector
click_found_masked(i, is_input, sel, coordinates, faults) ==
    LET focus == Call("focus", Get(sel), Zero, Zero, <<>>, "focus" \in faults)
        click == Call("click", Get(sel), Zero, Zero, <<>>, "click" \in faults)
        mouse == Call("mouse.click", NoSelector, Get(coordinates).x, Get(coordinates).y,
                      <<>>, "mouse.click" \in faults)
        first == IF sel # None
                 THEN (IF is_input THEN <<focus>> ELSE <<>>) \o <<click>>
                 ELSE <<mouse>>
    IN IF sel = None /\ coordinates = None
       THEN run_stop("Could not find a way to click element with index",
                     <<"No selector or coordinates available for element", i>>)
       ELSE IF sel # None /\ click.raised
       THEN IF coordinates = None
            THEN run_done(first, FALSE, "Failed to click element with index",
                          ErrRaised(click))
            ELSE IF mouse.raised
            THEN run_done(first \o <<mouse>>, FALSE,
                          "Failed to click element with index", ErrRaised(mouse))
            ELSE run_done(first \o <<mouse>>, TRUE,
                          "Clicked element with index using coordinates fallback",
                          NoError)
       ELSE IF sel = None /\ mouse.raised
       THEN run_done(first, FALSE, "Failed to click element with index",
                     ErrRaised(mouse))
       ELSE run_done(first, TRUE, "Clicked element with index", NoError)

\* click_element on the element of index i, with the selector and the
\* coordinates found for it: the selector first, the coordinates when there
\* is no selector or when the click by selector raised
click_found(i, is_input, sel, coordinates, faults) ==
    LET focus == Call("focus", Get(sel), Zero, Zero, <<>>, "focus" \in faults)
        click == Call("click", Get(sel), Zero, Zero, <<>>, "click" \in faults)
        mouse == Call("mouse.click", NoSelector, Get(coordinates).x, Get(coordinates).y,
                      <<>>, "mouse.click" \in faults)
        first == IF sel # None
                 THEN (IF is_input THEN <<focus>> ELSE <<>>) \o <<click>>
                 ELSE <<mouse>>
    IN IF sel = None /\ coordinates = None
       THEN run_stop("Could not find a way to click element with index",
                     <<"No selector or coordinates available for element", i>>)
       ELSE IF sel # None /\ click.raised
       THEN IF coordinates = None
            THEN run_done(first, FALSE, "Failed to click element with index",
                          ErrRaised(click))
            ELSE IF mouse.raised
            THEN run_done(first \o <<mouse>>, FALSE,
                          "Failed to click element with index", ErrRaised(click))
            ELSE run_done(first \o <<mouse>>, TRUE,
                          "Clicked element with index using coordinates fallback",
                          NoError)
       ELSE IF sel = None /\ mouse.raised
       THEN run_done(first, FALSE, "Failed to click element with index",
                     ErrRaised(mouse))
       ELSE run_done(first, TRUE, "Clicked element with index", NoError)

\* mutant: an index that is not in the selector map falls back to index 1
click_by_index_first(selector_map, i, faults) ==
    IF i \notin DOMAIN selector_map /\ 1 \notin DOMAIN selector_map
    THEN run_stop("Element with index not found", <<"Element with index not found", i>>)
    ELSE click_found(IF i \in DOMAIN selector_map THEN i ELSE 1,
                     selector_map[IF i \in DOMAIN selector_map THEN i ELSE 1].tag_name
                         \in {"input", "textarea", "select"},
                     element_selector(selector_map[IF i \in DOMAIN selector_map THEN i ELSE 1]),
                     element_coordinates(selector_map[IF i \in DOMAIN selector_map THEN i ELSE 1]),
                     faults)

\* click_element with an index: the element is looked up in the selector map
click_by_index(selector_map, i, faults) ==
    IF i \notin DOMAIN selector_map
    THEN run_stop("Element with index not found", <<"Element with index not found", i>>)
    ELSE click_found(i, selector_map[i].tag_name \in {"input", "textarea", "select"},
                     element_selector(selector_map[i]),
                     element_coordinates(selector_map[i]), faults)

\* The body of click_element between get_dom_state and the state refresh
click_element_run(elements, state, selector, index, faults) ==
    IF selector # None THEN click_by_selector(elements, Get(selector), faults)
    ELSE click_by_index(state.selector_map, IF index # None THEN Get(index) ELSE 0,
                        faults)

\* get_current_context raising (no page) leaves through the outermost
\* handler; inspect is the fault get_dom_state meets.  The elements are
\* form fields: a click changes the content of none.
click_element(selector, index, inspect, faults) ==
    /\ IF get_current_page_raises
       THEN /\ caught("click_element", MsgNoPages)
            /\ calls' = <<>>
       ELSE \E state \in {get_dom_state(get_current_context, url, inspect)} :
            \E run \in {click_element_run(ContextElements(get_current_context, url),
                                          state, selector, index, faults)} :
               /\ calls' = run.calls
               /\ IF run.early
                  THEN returned("click_element", run.message, Some(state), run.error)
                  ELSE refreshed("click_element", run.success, run.message, run.error,
                                 PageContext(get_current_page), url)
    /\ UNCHANGED <<tabVars, overlay, hiVars, now, url, value, jar, tasks>>

\* input_text with a CSS selector: a click on the element, then fill
input_by_selector(elements, selector, text, faults) ==
    LET handle == <<Call("click", selector, Zero, Zero, <<>>, "click" \in faults),
                    Call("fill", selector, Zero, Zero, text, "fill" \in faults)>>
    IN IF "query" \in faults
       THEN run_done(<<>>, FALSE, "Failed to input text into element with selector",
                     <<"str(e)", "query_selector">>)
       ELSE IF query_selector(elements, selector) = 0
       THEN run_stop("Element with selector not found",
                     <<"Element with selector not found", selector>>)
       ELSE IF raising(handle)
       THEN run_done(issued(handle), FALSE,
                     "Failed to input text into element with selector",
                     ErrRaised(issued(handle)[Len(issued(handle))]))
       ELSE run_done(handle, TRUE, "Input text into element with selector", NoError)

\* input_text on the element of index i, with the selector and the
\* coordinates found for it.  By selector the field is filled with the empty
\* text, then with the text; by coordinates the text is typed after a mouse
\* click.  When the attempt by selector raised, the fallback clicks at the
\* coordinates, selects all, deletes and types.
input_found(i, sel, coordinates, text, faults) ==
    LET mouse == Call("mouse.click", NoSelector, Get(coordinates).x, Get(coordinates).y,
                      <<>>, "mouse.click" \in faults)
        type == Call("keyboard.type", NoSelector, Zero, Zero, text, "type" \in faults)
        first == IF sel # None
                 THEN <<Call("fill", Get(sel), Zero, Zero, <<>>, "clear" \in faults),
                        Call("fill", Get(sel), Zero, Zero, text, "fill" \in faults)>>
                 ELSE <<mouse, type>>
        fallback ==
            <<mouse,
              Call("keyboard.press", NoSelector, Zero, Zero, <<"Control+a">>,
                   "select" \in faults),
              Call("keyboard.press", NoSelector, Zero, Zero, <<"Backspace">>,
                   "delete" \in faults),
              type>>
        input_error == ErrRaised(issued(first)[Len(issued(first))])
    IN IF sel = None /\ coordinates = None
       THEN run_stop("Could not find a way to input text into element with index",
                     <<"No selector or coordinates available for element", i>>)
       ELSE IF ~raising(first)
       THEN run_done(first, TRUE, "Input text into element with index", NoError)
       ELSE IF sel = None \/ coordinates = None
       THEN run_done(issued(first), FALSE,
                     "Failed to input text into element with index", input_error)
       ELSE IF raising(fallback)
       THEN run_done(issued(first) \o issued(fallback), FALSE,
                     "Failed to input text into element with index", input_error)
       ELSE run_done(issued(first) \o fallback, TRUE,
                     "Input text into element with index using coordinates fallback",
                     NoError)

\* input_text with an index: the element is looked up in the selector map
input_by_index(selector_map, i, text, faults) ==
    IF i \notin DOMAIN selector_map
    THEN run_stop("Element with index not found", <<"Element with index not found", i>>)
    ELSE input_found(i, element_selector(selector_map[i]),
                     element_coordinates(selector_map[i]), text, faults)

\* The body of input_text between get_dom_state and the state refresh
input_text_run(elements, state, selector, index, text, faults) ==
    IF selector # None THEN input_by_selector(elements, Get(selector), text, faults)
    ELSE input_by_index(state.selector_map, IF index # None THEN Get(index) ELSE 0,
                        text, faults)

\* The calls act on the document of the page: the frames of the model hold
\* no element, so no call is issued while a frame is the context.
input_text(selector, index, text, inspect, faults, caret) ==
    /\ IF get_current_page_raises
       THEN /\ caught("input_text", MsgNoPages)
            /\ calls' = <<>>
            /\ UNCHANGED value
       ELSE \E state \in {get_dom_state(get_current_context, url, inspect)} :
            \E run \in {input_text_run(ContextElements(get_current_context, url),
                                       state, selector, index, text, faults)} :
            \E vals \in {perform(run.calls, PageElements(url[get_current_page]), caret,
                                 [vals |-> value[get_current_page], focus |-> 0,
                                  selected |-> FALSE, at |-> 0])} :
               /\ \A k \in DOMAIN vals : Len(vals[k]) <= MaxText
               /\ calls' = run.calls
               /\ value' = [value EXCEPT ![get_current_page] = vals]
               /\ IF run.early
                  THEN returned("input_text", run.message, Some(state), run.error)
                  ELSE refreshed("input_text", run.success, run.message, run.error,
                                 PageContext(get_current_page), url)
    /\ UNCHANGED <<tabVars, overlay, hiVars, now, url, jar, tasks>>

\* click_coordinates: one click of the mouse of the current page, then the
\* state of the page
click_coordinates(x, y, raises) ==
    /\ IF get_current_page_raises
       THEN /\ caught("click_coordinates", MsgNoPages)
            /\ calls' = <<>>
       ELSE \E click \in {Call("mouse.click", NoSelector, x, y, <<>>, raises)} :
               /\ calls' = <<click>>
               /\ refreshed("click_coordinates", ~raises,
                            IF raises THEN "Failed to click at coordinates"
                            ELSE "Clicked at coordinates",
                            IF raises THEN ErrRaised(click) ELSE NoError,
                            PageContext(get_current_page), url)
    /\ UNCHANGED <<tabVars, overlay, hiVars, now, url, value, jar, tasks>>

\* send_keys: the keys typed on the keyboard of the current page, then the
\* state of the page.  The keys go to the field that holds the focus, at
\* the caret; which field that is the handlers do not record, so it is an
\* input (focus 0: no field).
send_keys(keys, raises, focus, caret) ==
    /\ IF get_current_page_raises
       THEN /\ caught("send_keys", MsgNoPages)
            /\ calls' = <<>>
            /\ UNCHANGED value
       ELSE /\ focus <= Len(PageElements(url[get_current_page]))
            /\ focus # 0 => caret <= Len(value[get_current_page][focus])
            /\ \E type \in {Call("keyboard.type", NoSelector, Zero, Zero, keys, raises)} :
               \E vals \in {perform(<<type>>, PageElements(url[get_current_page]), caret,
                                    [vals |-> value[get_current_page], focus |-> focus,
                                     selected |-> FALSE,
                                     at |-> IF focus = 0 THEN 0 ELSE caret])} :
               /\ \A k \in DOMAIN vals : Len(vals[k]) <= MaxText
               /\ calls' = <<type>>
               /\ value' = [value EXCEPT ![get_current_page] = vals]
               /\ refreshed("send_keys", ~raises,
                            IF raises THEN "Failed to send keys" ELSE "Sent keys",
                            IF raises THEN ErrRaised(type) ELSE NoError,
                            PageContext(get_current_page), url)
    /\ UNCHANGED <<tabVars, overlay, hiVars, now, url, jar, tasks>>

\* --------------------------------------------------------- DragDropActions
\* DragDropAction, with the fields drag_drop reads; the offsets within the
\* elements are left out (None)
DragDropAction(source_selector, target_selector, coord_source, coord_target, steps) ==
    [source_selector |-> source_selector, target_selector |-> target_selector,
     coord_source_x |-> coord_source[1], coord_source_y |-> coord_source[2],
     coord_target_x |-> coord_target[1], coord_target_y |-> coord_target[2],
     steps |-> steps]

\* steps when the action carries none
DefaultSteps == 10

\* the CSS selectors a caller of drag_drop writes
css(selector) ==
    IF selector = "#a" THEN Selector("id", "a") ELSE Selector("id", "zz")

\* `if source_selector`: a selector that is neither None nor empty
given(selector) == selector # None /\ selector # Some("")

\* One end of the drag, the source or the target: the point, or the result
\* the handler returns at once.  A numeric selector is an index of the
\* selector map, any other one a CSS selector whose bounding box is taken;
\* without a selector the coordinates of the action are the point.
drag_point(is_source, selector, coord_x, coord_y, elements, state, faults) ==
    LET at(p) == [ok |-> TRUE, x |-> p.x, y |-> p.y, message |-> "", error |-> NoError]
        stop(message, error) ==
            [ok |-> FALSE, x |-> Zero, y |-> Zero, message |-> message, error |-> error]
        index == int(Get(selector))
        i == Get(index)
        k == query_selector(elements, css(Get(selector)))
    IN IF ~given(selector)
       THEN at([x |-> FromInt(Get(coord_x)), y |-> FromInt(Get(coord_y))])
       ELSE IF index # None
       THEN IF i \notin DOMAIN state.selector_map
            THEN stop(IF is_source THEN "Source element with index not found"
                      ELSE "Target element with index not found",
                      <<IF is_source THEN "Source element with index not found"
                        ELSE "Target element with index not found", i>>)
            ELSE IF state.selector_map[i].page_coordinates = None
            THEN stop(IF is_source
                      THEN "Could not determine coordinates for source element"
                      ELSE "Could not determine coordinates for target element",
                      <<IF is_source THEN "No coordinates available for source element"
                        ELSE "No coordinates available for target element", i>>)
            ELSE at(Get(element_coordinates(state.selector_map[i])))
       ELSE IF "query" \in faults
       THEN stop(IF is_source THEN "Error finding source element with selector"
                 ELSE "Error finding target element with selector",
                 <<"str(e)", "query_selector">>)
       ELSE IF k = 0
       THEN stop(IF is_source THEN "Source element with selector not found"
                 ELSE "Target element with selector not found",
                 <<IF is_source THEN "Source element with selector not found"
                   ELSE "Target element with selector not found", Get(selector)>>)
       ELSE IF "box" \in faults
       THEN stop(IF is_source
                 THEN "Could not determine bounding box for source element"
                 ELSE "Could not determine bounding box for target element",
                 <<IF is_source THEN "No bounding box available for source element"
                   ELSE "No bounding box available for target element", Get(selector)>>)
       ELSE at(Centres[elements[k].rect])

\* mutant: the moves stop one short of the target
drag_moves_short(source, target, steps, faults) ==
    LET x_step == fdiv(fadd(target.x, fneg(source.x)), steps)
        y_step == fdiv(fadd(target.y, fneg(source.y)), steps)
    IN [i \in 1..(steps - 1) |->
           Call("mouse.move", NoSelector,
                fadd(source.x, fmul(x_step, i)), fadd(source.y, fmul(y_step, i)),
                <<>>, "step" \in faults /\ i = 1)]

\* the moves of the loop, for steps # 0: the i-th goes to
\* source + (step * i) with step = (target - source) / steps
drag_moves(source, target, steps, faults) ==
    LET x_step == fdiv(fadd(target.x, fneg(source.x)), steps)
        y_step == fdiv(fadd(target.y, fneg(source.y)), steps)
    IN [i \in 1..steps |->
           Call("mouse.move", NoSelector,
                fadd(source.x, fmul(x_step, i)), fadd(source.y, fmul(y_step, i)),
                <<>>, "step" \in faults /\ i = 1)]

\* the drag between two points: the move to the source and the press,
\* the moves of the loop, the release.  The division by steps comes after
\* the press: with steps = 0 it raises there.
drag_between(source, target, steps, faults) ==
    LET start == <<Call("mouse.move", NoSelector, source.x, source.y, <<>>,
                        "move" \in faults),
                   Call("mouse.down", NoSelector, Zero, Zero, <<>>, "down" \in faults)>>
        plan == start \o drag_moves(source, target, steps, faults)
                    \o <<Call("mouse.up", NoSelector, Zero, Zero, <<>>, "up" \in faults)>>
        failed == "Failed to perform drag and drop operation"
    IN IF raising(start)
       THEN run_done(issued(start), FALSE, failed,
                     ErrRaised(issued(start)[Len(issued(start))]))
       ELSE IF steps = 0
       THEN run_done(start, FALSE, failed, <<"str(e)", "division by zero">>)
       ELSE IF raising(plan)
       THEN run_done(issued(plan), FALSE, failed,
                     ErrRaised(issued(plan)[Len(issued(plan))]))
       ELSE run_done(plan, TRUE, "Drag and drop operation completed", NoError)

\* the target is determined once the source is
drag_to(source, target, steps, faults) ==
    IF ~target.ok THEN run_stop(target.message, target.error)
    ELSE drag_between(source, target, steps, faults)
drag_from(source, elements, state, action, faults) ==
    IF ~source.ok THEN run_stop(source.message, source.error)
    ELSE drag_to(source,
                 drag_point(FALSE, action.target_selector, action.coord_target_x,
                            action.coord_target_y, elements, state, faults),
                 IF action.steps # None THEN Get(action.steps) ELSE DefaultSteps,
                 faults)

\* The body of drag_drop between get_dom_state and the state refresh
drag_drop_run(elements, state, action, faults) ==
    drag_from(drag_point(TRUE, action.source_selector, action.coord_source_x,
                         action.coord_source_y, elements, state, faults),
              elements, state, action, faults)

\* get_current_context raising (no page) leaves through the outermost
\* handler; an action that lacks an end returns before the page is
\* inspected.  The drag moves no content of a form field.
drag_drop(action, inspect, faults) ==
    /\ IF get_current_page_raises
       THEN /\ caught("drag_drop", MsgNoPages)
            /\ calls' = <<>>
       ELSE IF \/ /\ ~given(action.source_selector)
                  /\ (action.coord_source_x = None \/ action.coord_source_y = None)
               \/ /\ ~given(action.target_selector)
                  /\ (action.coord_target_x = None \/ action.coord_target_y = None)
       THEN /\ returned("drag_drop", "Missing source or target for drag and drop", None,
                        <<"You must provide either element selectors or coordinates for both source and target">>)
            /\ calls' = <<>>
       ELSE \E state \in {get_dom_state(get_current_context, url, inspect)} :
            \E run \in {drag_drop_run(ContextElements(get_current_context, url),
                                      state, action, faults)} :
               /\ calls' = run.calls
               /\ IF run.early
                  THEN returned("drag_drop", run.message, Some(state), run.error)
                  ELSE refreshed("drag_drop", run.success, run.message, run.error,
                                 PageContext(get_current_page), url)
    /\ UNCHANGED <<tabVars, overlay, hiVars, now, url, value, jar, tasks>>

\* ---------------------------------------------------- CookieStorageActions
\* A cookie is its name and its value; the jar of the browser context holds
\* at most one cookie of a name (domain and path are the same for all).
Cookie(name, val) == [name |-> name, value |-> val]

\* page.context.add_cookies([cookie]) on the jar
added(cookies, name, val) ==
    {c \in cookies : c.name # name} \cup {Cookie(name, val)}

\* What the browser does with a cookie it is given, an input of the
\* model: add_cookies raises or returns; the cookie shows in the jar at
\* once, only after the first listing, or never (the browser dropped it);
\* raises holds the listings (1, 2) at which page.context.cookies raises.
BrowserCookieInputs ==
    {[add_raises |-> TRUE, shows |-> "never", raises |-> {}]}
        \cup [add_raises : {FALSE}, shows : {"at once", "late", "never"},
              raises : {{}, {1}, {1, 2}}]

\* _get_cookies: the cookies of the context, or [] when the call raises
\* (the handler swallows the exception); the call is logged with the list
\* it returned
get_cookies_internal(cookies, raises) ==
    Call("context.cookies", NoSelector, Zero, Zero,
         IF raises THEN {} ELSE cookies, raises)

\* mutant: a cookie of the name passes the verification, whatever its value
verified_by_name(listing, name, val) ==
    \E c \in listing.text : c.name = name

\* for c in cookies: if c.get("name") == name and c.get("value") == value
verified(listing, name, val) ==
    \E c \in listing.text : c.name = name /\ c.value = val

\* _set_cookie: [ok, calls, jar], the value returned, the calls issued to
\* the browser context and the jar they leave
set_cookie_internal(name, val, browser) ==
    IF name = "" \/ val = "" \/ get_current_page_raises
    THEN [ok |-> FALSE, calls |-> <<>>, jar |-> jar]
    ELSE LET add == Call("context.add_cookies", NoSelector, Zero, Zero,
                         {Cookie(name, val)}, browser.add_raises)
             with == added(jar, name, val)
             first == get_cookies_internal(
                          IF browser.shows = "at once" THEN with ELSE jar,
                          1 \in browser.raises)
             second == get_cookies_internal(
                           IF browser.shows # "never" THEN with ELSE jar,
                           2 \in browser.raises)
         IN IF browser.add_raises
            THEN [ok |-> FALSE, calls |-> <<add>>, jar |-> jar]
            ELSE IF verified(first, name, val)
            THEN [ok |-> TRUE, calls |-> <<add, first>>, jar |-> with]
            ELSE [ok |-> verified(second, name, val),
                  calls |-> <<add, first, second>>,
                  jar |-> IF browser.shows # "never" THEN with ELSE jar]

\* set_cookie: _set_cookie, then the state of the current page
set_cookie(name, val, browser) ==
    /\ IF get_current_page_raises
       THEN /\ caught("set_cookie", MsgNoPages)
            /\ calls' = <<>>
            /\ UNCHANGED jar
       ELSE \E run \in {set_cookie_internal(name, val, browser)} :
               /\ calls' = run.calls
               /\ jar' = run.jar
               /\ refreshed("set_cookie", run.ok,
                            IF run.ok THEN "Cookie set successfully"
                            ELSE "Failed to set cookie",
                            IF run.ok THEN NoError ELSE <<"Failed to set cookie">>,
                            PageContext(get_current_page), url)
    /\ UNCHANGED <<tabVars, overlay, hiVars, now, url, value, tasks>>

\* get_cookies: the listing, then the state of the current page
get_cookies(raises) ==
    /\ IF get_current_page_raises
       THEN /\ caught("get_cookies", MsgNoPages)
            /\ calls' = <<>>
       ELSE /\ calls' = <<get_cookies_internal(jar, raises)>>
            /\ refreshed("get_cookies", TRUE, "Retrieved cookies", NoError,
                         PageContext(get_current_page), url)
    /\ UNCHANGED <<tabVars, overlay, hiVars, now, url, value, jar, tasks>>

\* -------------------------------------------------------- overlapping calls
\* The handlers are coroutines of one event loop: a second call runs while
\* a first is suspended at an await of the browser.  Two calls are followed
\* through the handlers below, each split at the await at which it is
\* suspended: page.evaluate of _remove_intervention_ui in
\* complete_intervention, cancel_intervention and the timeout branch of
\* get_intervention_status, page_to_close.close() in close_tab.  A task
\* holds the locals of its call: the id or index it was given, the page it
\* took before the await, the status it assigned, and its reply.
Tasks == {1, 2}
NoTask == [pc |-> "idle", op |-> "", id |-> 0, page |-> 0, set |-> "", reply |-> NoResult]
Suspended(op, id, page, set) ==
    [pc |-> "suspended", op |-> op, id |-> id, page |-> page, set |-> set,
     reply |-> NoResult]
Returned(op, id, set, reply) ==
    [pc |-> "returned", op |-> op, id |-> id, page |-> 0, set |-> set, reply |-> reply]

InterventionOps == {"complete_intervention", "cancel_intervention",
                    "get_intervention_status"}
done_message(op) ==
    CASE op = "complete_intervention" -> MsgCompleted
      [] op = "cancel_intervention" -> MsgCancelled
      [] OTHER -> MsgStatus
failed_message(op) ==
    CASE op = "complete_intervention" -> MsgCompleteFailed
      [] op = "cancel_intervention" -> MsgCancelFailed
      [] OTHER -> MsgStatusFailed

\* a handler up to the await of the removal script: the lookup, the
\* assignment of the status, get_current_page
removal_begin(t, op, id, status, user_message) ==
    /\ tasks[t].pc = "idle"
    /\ IF active_get(id) = None
       THEN /\ result' = BrowserActionResult(op, FALSE, MsgNotFound,
                             ErrNoIntervention(id), NoContent)
            /\ tasks' = [tasks EXCEPT ![t] = Returned(op, id, "", result')]
            /\ UNCHANGED hiVars
       ELSE /\ interventions' = [interventions EXCEPT
                   ![id].status = status,
                   ![id].completed_at = Some(now),
                   ![id].user_message = user_message]
            /\ UNCHANGED active_interventions
            /\ IF get_current_page_raises
               THEN /\ result' = BrowserActionResult(op, FALSE, failed_message(op),
                                     ErrException, NoContent)
                    /\ tasks' = [tasks EXCEPT ![t] = Returned(op, id, status, result')]
               ELSE /\ tasks' = [tasks EXCEPT
                                    ![t] = Suspended(op, id, get_current_page, status)]
                    /\ UNCHANGED result
    /\ UNCHANGED <<tabVars, domVars, overlay, now, jar>>

complete_begin(t, id, success, user_message) ==
    removal_begin(t, "complete_intervention", id, completion_status(success),
                  user_message)
cancel_begin(t, id) ==
    /\ id \in 1..Len(interventions)
    /\ removal_begin(t, "cancel_intervention", id, CANCELLED,
                     interventions[id].user_message)
\* a status call that finds its request pending and past the deadline; any
\* other status call returns without an await
status_begin(t, id) ==
    /\ active_get(id) # None
    /\ interventions[id].status = PENDING
    /\ elapsed_exceeds(now - interventions[id].created_at,
                       interventions[id].timeout_seconds)
    /\ removal_begin(t, "get_intervention_status", id, TIMEOUT,
                     interventions[id].user_message)

\* the rest of the handler: the script has run on the page the handler
\* took, del _active_interventions[id] (KeyError when another call deleted
\* the entry, which the handler turns into a failure), the reply with the
\* status the request has by then
removal_resume(t, evaluate_raises) ==
    \E task \in {tasks[t]} :
       /\ task.pc = "suspended"
       /\ task.op \in InterventionOps
       /\ overlay' = remove_intervention_ui(task.page, evaluate_raises)
       /\ IF task.id \in active_interventions
          THEN /\ active_interventions' = active_del(task.id)
               /\ result' = BrowserActionResult(task.op, TRUE, done_message(task.op),
                                NoError,
                                Content(task.id, interventions[task.id].status, None))
          ELSE /\ UNCHANGED active_interventions
               /\ result' = BrowserActionResult(task.op, FALSE, failed_message(task.op),
                                ErrException, NoContent)
       /\ tasks' = [tasks EXCEPT ![t] = Returned(task.op, task.id, task.set, result')]
       /\ UNCHANGED <<tabVars, domVars, interventions, now, jar>>

\* close_tab up to the await of the close: the checks, pages[page_id]
close_begin(t, page_id) ==
    /\ tasks[t].pc = "idle"
    /\ IF invalid_page_id(page_id)
       THEN /\ returned("close_tab", MsgInvalidTab, None, ErrTabIndexRange)
            /\ tasks' = [tasks EXCEPT ![t] = Returned("close_tab", page_id, "", result')]
       ELSE IF is_last_tab
       THEN /\ returned("close_tab", MsgLastTab, None, ErrLastTab)
            /\ tasks' = [tasks EXCEPT ![t] = Returned("close_tab", page_id, "", result')]
       ELSE /\ tasks' = [tasks EXCEPT
                            ![t] = Suspended("close_tab", page_id, pages[page_id + 1], "")]
            /\ UNCHANGED result
    /\ UNCHANGED <<tabVars, domVars, overlay, hiVars, now, jar>>

\* the rest of close_tab: the close has returned or raised, pages.pop(page_id)
\* (IndexError when the list has become too short, which the inner handler
\* turns into a failure), the pointer, the frame, the state of the current
\* page
close_resume(t, close_raises) ==
    \E task \in {tasks[t]} :
       /\ task.pc = "suspended"
       /\ task.op = "close_tab"
       /\ IF close_raises \/ task.id >= Len(pages)
          THEN /\ UNCHANGED tabVars
               /\ IF get_current_page_raises
                  THEN caught("close_tab", MsgNoPages)
                  ELSE refreshed("close_tab", FALSE, MsgCloseFailed, ErrException,
                                 PageContext(get_current_page), url)
          ELSE /\ pages' = pop(pages, task.id)
               /\ current_page_index' = adjusted_index(current_page_index, task.id)
               /\ current_frame' = None
               /\ IF pages' = <<>>
                  THEN caught("close_tab", MsgNoPages)
                  ELSE refreshed("close_tab", TRUE, MsgClosed, NoError,
                                 PageContext(pages'[current_page_index' + 1]), url)
               /\ UNCHANGED next_page
       /\ tasks' = [tasks EXCEPT ![t] = Returned("close_tab", task.id, "", result')]
       /\ UNCHANGED <<domVars, overlay, hiVars, now, jar>>

\* ------------------------------------------------------------ the system
\* startup leaves one page, or none when the browser failed to start
Init ==
    /\ pages \in {<<1>>, <<>>}
    /\ current_page_index = 0
    /\ current_frame = None
    /\ next_page = Len(pages)
    /\ overlay = [p \in PageHandles |-> None]
    /\ interventions = <<>>
    /\ active_interventions = {}
    /\ now = 0
    /\ result = NoResult
    /\ url = [p \in PageHandles |-> BlankUrl]
    /\ value = [p \in PageHandles |-> InitialValue(BlankUrl)]
    /\ calls = <<>>
    /\ jar = {}
    /\ tasks = [t \in Tasks |-> NoTask]

\* timeout_seconds: expiring at once, and one second
TimeoutInputs == {0, 1}
IdInputs == Ids
TabIndexInputs == (-1)..MaxPageHandles
OptionalTabIndex == {None} \cup {Some(i) : i \in TabIndexInputs}
OptionalPageId == {None, Some(0)}
UserMessages == {Some("done")}
\* the urls a caller asks for
UrlInputs == {"u1", "u2"}

RequestCall ==
    \E timeout_seconds \in TimeoutInputs, take_screenshot \in BOOLEAN,
       fault \in RequestFaults :
        request_intervention(timeout_seconds, take_screenshot, fault)
\* evaluate_raises is drawn only where the handler reaches the page.evaluate
\* of _remove_intervention_ui
CompleteCall ==
    \E id \in IdInputs, success \in BOOLEAN, user_message \in UserMessages,
       evaluate_raises \in BOOLEAN :
        /\ evaluate_raises => id \in active_interventions
        /\ complete_intervention(id, success, user_message, evaluate_raises)
CancelCall ==
    \E id \in IdInputs, evaluate_raises \in BOOLEAN :
        /\ evaluate_raises => id \in active_interventions
        /\ cancel_intervention(id, evaluate_raises)
StatusCall ==
    \E id \in {None} \cup {Some(i) : i \in IdInputs}, evaluate_raises \in BOOLEAN :
        /\ evaluate_raises => active_interventions # {}
        /\ get_intervention_status(id, evaluate_raises)
\* the flags of a call: no check, every check, one, two
CheckInputs ==
    {{}, {InterventionTypes[k] : k \in 1..Len(InterventionTypes)}, {"captcha"},
     {"login_required", "cookies_consent"}}
\* what the page shows: the same mark for every detector, or a captcha
\* widget together with the words of a login form
ShowsInputs ==
    {[t \in {InterventionTypes[k] : k \in 1..Len(InterventionTypes)} |-> m] : m \in Marks}
      \cup {[t \in {InterventionTypes[k] : k \in 1..Len(InterventionTypes)} |->
                CASE t = "captcha" -> "element" [] t = "login_required" -> "text"
                  [] OTHER -> "nothing"]}
AutoDetectCall ==
    \E checks \in CheckInputs, shows \in ShowsInputs, page_raises \in BOOLEAN :
        auto_detect_intervention_needed(checks, shows, page_raises)
SwitchTabCall ==
    \E tab_index \in OptionalTabIndex, page_id \in OptionalPageId :
        switch_tab(tab_index, page_id)
OpenTabCall ==
    \E to \in UrlInputs, fault \in OpenFaults :
        open_tab(to, fault)
\* one caller's open_tab, which succeeds
OpenOneTabCall == open_tab("u1", "none")
CloseTabCall ==
    \E tab_index \in OptionalTabIndex, page_id \in OptionalPageId,
       close_raises \in BOOLEAN :
        close_tab(tab_index, page_id, close_raises)
SwitchToFrameCall ==
    \E frame_selector \in FrameSelectors, fault \in FrameFaults :
        switch_to_frame(frame_selector, fault)
SwitchToMainFrameCall == switch_to_main_frame
NavigateCall ==
    \E to \in UrlInputs, fault \in {"none", "goto", "idle"} : navigate_to(to, fault)
SearchGoogleCall ==
    \E fault \in {"none", "goto", "input", "idle"} : search_google(fault)
GoBackCall ==
    \E to \in Urls, fault \in {"none", "raise", "idle"} : go_back(to, fault)
GoForwardCall ==
    \E to \in Urls, fault \in {"none", "raise"} : go_forward(to, fault)
RefreshCall ==
    \E fault \in {"none", "raise"} : refresh(fault)
WaitCall ==
    \E fault \in {"none", "idle"} : wait(fault)
SavePdfCall ==
    \E fault \in PdfFaults : save_pdf(fault)

\* The inputs of the interaction handlers.  A caller names its element by
\* a selector or by an index (index None stands for the default 0), the
\* index together with the fault the page inspection meets.  The caret lands
\* before or behind the content of the field a mouse click hits.
SelectorInputs == {Some(Selector("id", v)) : v \in {"a", "zz"}}
IndexInputs ==
    {[index |-> None, inspect |-> "none"],
     [index |-> Some(1), inspect |-> "none"],
     [index |-> Some(1), inspect |-> "evaluate"],
     [index |-> Some(1), inspect |-> "state"],
     [index |-> Some(2), inspect |-> "none"],
     [index |-> Some(2), inspect |-> "loop"]}
TextInputs == {<<"x">>}
CaretInputs == {0, MaxText}
\* the sets of calls that raise on the way of an index: a single call, or
\* a call of the first attempt together with a call of the fallback
ClickFaults == {{"focus"}, {"click"}, {"mouse.click"}, {"click", "mouse.click"}}
InputFaults ==
    {{"clear"}, {"fill"}, {"mouse.click"}, {"type"}}
        \cup {{"fill", f} : f \in {"mouse.click", "select", "delete", "type"}}

ClickSelectorCall ==
    \E selector \in SelectorInputs, faults \in {{}, {"query"}, {"click"}} :
        click_element(selector, None, "none", faults)
ClickIndexCall ==
    \E target \in IndexInputs : click_element(None, target.index, target.inspect, {})
ClickFaultyCall ==
    \E target \in IndexInputs, faults \in ClickFaults :
        click_element(None, target.index, target.inspect, faults)
InputSelectorCall ==
    \E selector \in SelectorInputs, text \in TextInputs,
       faults \in {{}, {"query"}, {"click"}, {"fill"}} :
        input_text(selector, None, text, "none", faults, 0)
InputIndexCall ==
    \E target \in IndexInputs, text \in TextInputs, caret \in CaretInputs :
        input_text(None, target.index, text, target.inspect, {}, caret)
InputFaultyCall ==
    \E target \in IndexInputs, text \in TextInputs, caret \in CaretInputs,
       faults \in InputFaults :
        input_text(None, target.index, text, target.inspect, faults, caret)

\* the points a caller clicks: inside the first field of "u1", outside
\* every field
ClickCoordinatesCall ==
    \E at \in {<<5, 2>>, <<50, 50>>}, raises \in BOOLEAN :
        click_coordinates(FromInt(at[1]), FromInt(at[2]), raises)
SendKeysCall ==
    \E keys \in TextInputs, raises \in BOOLEAN, focus \in 0..2, caret \in 0..MaxText :
        send_keys(keys, raises, focus, caret)

\* The drags between points: from the origin, over steps that divide the
\* distance exactly and steps that do not; an end may lack a coordinate.
\* A fault is a call that raises: the move to the source, the press, the
\* first move of the loop, the release.
PointInputs == {<<Some(100), Some(0)>>, <<Some(15), Some(0)>>, <<Some(7), Some(3)>>}
StepInputs == {None, Some(-1), Some(0), Some(1), Some(4), Some(MaxSteps)}
DragCoordinatesCall ==
    \/ \E coord_target \in PointInputs, steps \in StepInputs,
          faults \in {{}, {"move"}, {"down"}, {"step"}, {"up"}} :
           drag_drop(DragDropAction(None, None, <<Some(0), Some(0)>>, coord_target, steps),
                     "none", faults)
    \/ \E coord_source \in {<<None, Some(0)>>, <<Some(0), None>>, <<Some(0), Some(0)>>} :
           drag_drop(DragDropAction(None, Some(""), coord_source, <<Some(0), None>>, None),
                     "none", {})
\* The drags between elements, each named by an index or by a CSS
\* selector, with the fault the page inspection meets or the fault of the
\* lookup of a CSS selector
EndInputs ==
    {<<"1", "2">>, <<"2", "1">>, <<"7", "1">>, <<"1", "7">>, <<"0", "7">>,
     <<"#a", "2">>, <<"2", "#zz">>, <<"#a", "#a">>}
DragElementsCall ==
    \E ends \in EndInputs,
       fault \in {<<"none", {}>>, <<"evaluate", {}>>, <<"state", {}>>,
                  <<"none", {"query"}>>, <<"none", {"box"}>>} :
        drag_drop(DragDropAction(Some(ends[1]), Some(ends[2]), <<None, None>>,
                                 <<None, None>>, Some(2)),
                  fault[1], fault[2])

\* the cookies a caller sets: a name, two values, and the empty ones
CookieNames == {"", "k"}
CookieValues == {"", "v", "w"}
SetCookieCall ==
    \E name \in CookieNames, val \in CookieValues, browser \in BrowserCookieInputs :
        set_cookie(name, val, browser)
GetCookiesCall ==
    \E raises \in BOOLEAN : get_cookies(raises)

HINext ==
    \/ RequestCall
    \/ CompleteCall
    \/ CancelCall
    \/ StatusCall
    \/ AutoDetectCall
    \/ Tick

TabNext ==
    \/ SwitchTabCall
    \/ OpenTabCall
    \/ CloseTabCall
    \/ SwitchToFrameCall
    \/ SwitchToMainFrameCall

NavNext ==
    \/ NavigateCall
    \/ SearchGoogleCall
    \/ GoBackCall
    \/ GoForwardCall
    \/ RefreshCall
    \/ SwitchToFrameCall
    \/ SwitchToMainFrameCall

InteractNext ==
    \/ NavigateCall
    \/ ClickSelectorCall
    \/ ClickIndexCall
    \/ ClickFaultyCall
    \/ InputSelectorCall
    \/ InputIndexCall
    \/ InputFaultyCall

LookupNext ==
    \/ NavigateCall
    \/ ClickIndexCall
    \/ InputIndexCall
    \/ DragElementsCall

DragNext ==
    \/ NavigateCall
    \/ DragCoordinatesCall

CookieNext ==
    \/ NavigateCall
    \/ SetCookieCall
    \/ GetCookiesCall

DeviceNext ==
    \/ SwitchToFrameCall
    \/ SwitchToMainFrameCall
    \/ ClickSelectorCall
    \/ ClickFaultyCall
    \/ ClickCoordinatesCall
    \/ InputSelectorCall
    \/ InputFaultyCall
    \/ SendKeysCall
    \/ DragElementsCall

\* two calls that may overlap
CompleteBeginCall ==
    \E t \in Tasks, id \in IdInputs, success \in BOOLEAN, user_message \in UserMessages :
        complete_begin(t, id, success, user_message)
CancelBeginCall ==
    \E t \in Tasks, id \in IdInputs : cancel_begin(t, id)
StatusBeginCall ==
    \E t \in Tasks, id \in IdInputs : status_begin(t, id)
RemovalResumeCall ==
    \E t \in Tasks, evaluate_raises \in BOOLEAN : removal_resume(t, evaluate_raises)
CloseBeginCall ==
    \E t \in Tasks, page_id \in TabIndexInputs : close_begin(t, page_id)
CloseResumeCall ==
    \E t \in Tasks, close_raises \in BOOLEAN : close_resume(t, close_raises)

RaceNext ==
    \/ RequestCall
    \/ CompleteBeginCall
    \/ CancelBeginCall
    \/ StatusBeginCall
    \/ RemovalResumeCall

CloseRaceNext ==
    \/ OpenOneTabCall
    \/ CloseBeginCall
    \/ CloseResumeCall

OverlayNext ==
    \/ RequestCall
    \/ CompleteCall
    \/ CancelCall
    \/ StatusCall
    \/ OpenOneTabCall

IdleNext ==
    \/ NavigateCall
    \/ OpenTabCall
    \/ GoBackCall
    \/ SearchGoogleCall
    \/ WaitCall
    \/ SavePdfCall

Next ==
    \/ HINext \/ TabNext \/ NavNext \/ InteractNext \/ LookupNext \/ DragNext
    \/ CookieNext \/ DeviceNext \/ IdleNext \/ OverlayNext
    \/ RaceNext \/ CloseRaceNext

\* the whole service
Spec == Init /\ [][Next]_vars
\* the intervention handlers and the clock, on the pages startup left
HISpec == Init /\ [][HINext]_vars
\* the tab and frame handlers
TabSpec == Init /\ [][TabNext]_vars
\* the navigation and frame handlers, on the pages startup left
NavSpec == Init /\ [][NavNext]_vars
\* navigate_to and the handlers that act on the elements of the page
InteractSpec == Init /\ [][InteractNext]_vars
\* navigate_to and the handlers that look an element up by its index, no
\* call raising
LookupSpec == Init /\ [][LookupNext]_vars
\* navigate_to and drag_drop
DragSpec == Init /\ [][DragNext]_vars
\* navigate_to and the cookie handlers
CookieSpec == Init /\ [][CookieNext]_vars
\* the frame handlers and the handlers that use the input devices, on the
\* pages startup left
DeviceSpec == Init /\ [][DeviceNext]_vars
\* the intervention handlers and an open_tab that succeeds
OverlaySpec == Init /\ [][OverlayNext]_vars
\* request_intervention and two calls that end a request, overlapping
RaceSpec == Init /\ [][RaceNext]_vars
\* open_tab and two close_tab calls, overlapping
CloseRaceSpec == Init /\ [][CloseRaceNext]_vars
\* the handlers that wait for network idle
IdleSpec == Init /\ [][IdleNext]_vars

\* ================================================================ claims
Issued == 1..Len(interventions)
\* the request is past its deadline: elapsed seconds exceed timeout_seconds
PastDeadline(i) ==
    now - interventions[i].created_at > interventions[i].timeout_seconds * TicksPerSecond
IsTerminal(i) == interventions[i].status \in TerminalStatus

\* C1: the status of an intervention changes only from pending to completed,
\* failed, cancelled or timeout; a terminal status is never changed by any
\* later call; in_progress is never assigned.
C1_StatusOnlyLeavesPending ==
    [][ /\ \A i \in Issued :
              interventions'[i].status # interventions[i].status
                  => /\ interventions[i].status = PENDING
                     /\ interventions'[i].status \in TerminalStatus
        /\ \A i \in 1..Len(interventions') :
              interventions'[i].status # IN_PROGRESS ]_vars

\* a call addressed a request that already had a terminal status
C1_Witness ==
    \E i \in Issued :
        /\ IsTerminal(i)
        /\ result.action \in {"complete_intervention", "cancel_intervention",
                              "get_intervention_status"}
        /\ result.error = ErrNoIntervention(i)

\* C2: a status call for the id of a pending request past its deadline sets
\* its status to timeout, returns that status and evicts it; a status call
\* for the id of a timed-out request fails with "Intervention not found".
C2_StatusTimesOut ==
    [][ \A id \in Ids, e \in BOOLEAN :
            get_intervention_status(Some(id), e) =>
                /\ (/\ id \in active_interventions
                    /\ interventions[id].status = PENDING
                    /\ PastDeadline(id))
                       => /\ interventions'[id].status = TIMEOUT
                          /\ result'.success
                          /\ result'.intervention_id = Some(id)
                          /\ result'.status = Some(TIMEOUT)
                          /\ id \notin active_interventions'
                /\ (id \in Issued /\ interventions[id].status = TIMEOUT)
                       => /\ ~result'.success
                          /\ result'.message = MsgNotFound
                          /\ UNCHANGED hiVars ]_vars

\* a status call has just timed a request out
C2_Witness ==
    /\ result.action = "get_intervention_status"
    /\ result.status = Some(TIMEOUT)
    /\ Get(result.intervention_id) \notin active_interventions
    /\ interventions[Get(result.intervention_id)].status = TIMEOUT

\* C3: on an active id, complete sets completed or failed per the success
\* flag and cancel sets cancelled; both stamp completed_at with the time of
\* the call, evict exactly that request and leave every other request as it
\* was.
C3_CompleteAndCancel ==
    [][ \A id \in Ids :
            id \in active_interventions =>
                LET others_untouched ==
                        /\ Len(interventions') = Len(interventions)
                        /\ \A j \in Issued \ {id} : interventions'[j] = interventions[j]
                        /\ active_interventions' = active_interventions \ {id}
                IN
                /\ \A success \in BOOLEAN, um \in UserMessages, e \in BOOLEAN :
                       complete_intervention(id, success, um, e) =>
                           /\ interventions'[id].status =
                                  (IF success THEN COMPLETED ELSE FAILED)
                           /\ interventions'[id].completed_at = Some(now)
                           /\ others_untouched
                           /\ result'.success
                /\ \A e \in BOOLEAN :
                       cancel_intervention(id, e) =>
                           /\ interventions'[id].status = CANCELLED
                           /\ interventions'[id].completed_at = Some(now)
                           /\ others_untouched
                           /\ result'.success ]_vars

\* a request was completed, failed or cancelled while another one, created
\* before that, is still active
C3_Witness ==
    \E i \in Issued, j \in active_interventions :
        /\ i # j
        /\ interventions[i].status \in {COMPLETED, FAILED, CANCELLED}
        /\ interventions[i].completed_at # None
        /\ interventions[j].created_at < Get(interventions[i].completed_at)
        /\ result.action \in {"complete_intervention", "cancel_intervention"}
        /\ result.intervention_id = Some(i)

\* C4: complete and cancel on an id that is not in the active registry (never
\* issued, or already terminal) fail with "Intervention not found" and leave
\* the registry and every request unchanged.
C4_AbsentIdFails ==
    [][ \A id \in Ids :
            (\/ id \notin active_interventions
             \/ id \notin Issued
             \/ IsTerminal(id)) =>
                /\ \A success \in BOOLEAN, um \in UserMessages, e \in BOOLEAN :
                       complete_intervention(id, success, um, e) =>
                           /\ ~result'.success
                           /\ result'.message = MsgNotFound
                           /\ UNCHANGED hiVars
                /\ \A e \in BOOLEAN :
                       cancel_intervention(id, e) =>
                           /\ ~result'.success
                           /\ result'.message = MsgNotFound
                           /\ UNCHANGED hiVars ]_vars

\* complete or cancel was called on a request completed, failed or cancelled
\* before, and failed
C4_Witness ==
    \E i \in Issued :
        /\ interventions[i].status \in {COMPLETED, FAILED, CANCELLED}
        /\ result.action \in {"complete_intervention", "cancel_intervention"}
        /\ ~result.success
        /\ result.error = ErrNoIntervention(i)

C6_ActiveArePending ==
    /\ active_interventions \subseteq Issued
    /\ \A i \in active_interventions : interventions[i].status = PENDING
    /\ \A i \in Issued : IsTerminal(i) => i \notin active_interventions

\* one request is active while another has reached a terminal status
C6_Witness ==
    /\ active_interventions # {}
    /\ \E i \in Issued : IsTerminal(i)

\* C7: only the status call assigns timeout.  Request, complete, cancel,
\* auto-detection and the passing of time never do, and they leave a pending
\* request past its deadline pending and active unless they complete or
\* cancel it; complete and cancel on such a request still succeed with
\* completed, failed or cancelled.
C7_TimeoutOnlyOnStatus ==
    [][ /\ (RequestCall \/ CompleteCall \/ CancelCall \/ AutoDetectCall \/ Tick)
               => \A i \in 1..Len(interventions') :
                      interventions'[i].status = TIMEOUT
                          => i \in Issued /\ interventions[i].status = TIMEOUT
        /\ \A id \in active_interventions :
               (interventions[id].status = PENDING /\ PastDeadline(id)) =>
                   /\ (RequestCall \/ AutoDetectCall \/ Tick)
                          => /\ interventions'[id].status = PENDING
                             /\ id \in active_interventions'
                   /\ \A success \in BOOLEAN, um \in UserMessages, e \in BOOLEAN :
                          complete_intervention(id, success, um, e) =>
                              /\ result'.success
                              /\ result'.status =
                                     Some(IF success THEN COMPLETED ELSE FAILED)
                              /\ interventions'[id].status =
                                     (IF success THEN COMPLETED ELSE FAILED)
                   /\ \A e \in BOOLEAN :
                          cancel_intervention(id, e) =>
                              /\ result'.success
                              /\ result'.status = Some(CANCELLED)
                              /\ interventions'[id].status = CANCELLED ]_vars

\* a request was completed, failed or cancelled after its deadline had passed
C7_Witness ==
    \E i \in Issued :
        /\ interventions[i].status \in {COMPLETED, FAILED, CANCELLED}
        /\ Get(interventions[i].completed_at) - interventions[i].created_at
               > interventions[i].timeout_seconds * TicksPerSecond
        /\ result.action \in {"complete_intervention", "cancel_intervention"}
        /\ result.success
        /\ result.intervention_id = Some(i)

\* C8: a status poll that directly follows the successful request of an
\* intervention with timeout_seconds = 0 reports timeout.
C8_ZeroTimeoutPoll ==
    [][ (/\ result.action = "request_intervention"
         /\ result.success
         /\ interventions[Get(result.intervention_id)].timeout_seconds = 0)
            => \A id \in {None, result.intervention_id}, e \in BOOLEAN :
                   get_intervention_status(id, e) =>
                       /\ result'.success
                       /\ result'.intervention_id = result.intervention_id
                       /\ result'.status = Some(TIMEOUT) ]_vars

\* a request with timeout_seconds = 0 was polled right after its creation and
\* reported as timeout
C8_Witness ==
    /\ result.action = "get_intervention_status"
    /\ result.status = Some(TIMEOUT)
    /\ LET i == Get(result.intervention_id)
       IN /\ interventions[i].timeout_seconds = 0
          /\ Get(interventions[i].completed_at) = interventions[i].created_at + 1

\* C9 as stated: with exactly one tab open, close_tab fails with "Cannot close
\* the last tab" for every index and leaves the tab registry unchanged.
C9_LastTabForEveryIndex ==
    [][ \A tab_index \in OptionalTabIndex \ {None}, page_id \in OptionalPageId,
           close_raises \in BOOLEAN :
            (Len(pages) = 1 /\ close_tab(tab_index, page_id, close_raises)) =>
                /\ ~result'.success
                /\ result'.message = MsgLastTab
                /\ UNCHANGED tabVars ]_vars

\* C9 amended: with exactly one tab open, close_tab fails for every index
\* and leaves pages, current_page_index and current_frame unchanged; the
\* failure is "Cannot close the last tab" for index 0 and "Invalid tab index"
\* for every other index.
C9_CloseLastTabFails ==
    [][ \A tab_index \in OptionalTabIndex \ {None}, page_id \in OptionalPageId,
           close_raises \in BOOLEAN :
            (Len(pages) = 1 /\ close_tab(tab_index, page_id, close_raises)) =>
                /\ ~result'.success
                /\ result'.message =
                       (IF Get(tab_index) = 0 THEN MsgLastTab ELSE MsgInvalidTab)
                /\ UNCHANGED tabVars ]_vars

\* close_tab was refused on the only tab, a frame being selected
C9_Witness ==
    /\ Len(pages) = 1
    /\ current_frame # None
    /\ result.action = "close_tab"
    /\ result.message = MsgLastTab

\* C10: switch_tab(k) with 0 <= k < count leaves current_page_index = k and
\* current_frame = None, so that get_current_context() is the page pages[k].
C10_SwitchTabResetsFrame ==
    [][ \A k \in TabIndexInputs, page_id \in OptionalPageId :
            (0 <= k /\ k < Len(pages) /\ switch_tab(Some(k), page_id)) =>
                /\ current_page_index' = k
                /\ current_frame' = None
                /\ pages' = pages
                /\ get_current_context' = PageContext(pages[k + 1])
                /\ result'.success ]_vars

\* switch_tab has just moved the pointer to a tab that is not the last one
C10_Witness ==
    /\ result.action = "switch_tab"
    /\ result.success
    /\ Len(pages) >= 2
    /\ current_page_index < Len(pages) - 1
    /\ get_current_context = PageContext(pages[current_page_index + 1])

\* C11: after any successful switch_tab, open_tab, close_tab, navigate_to,
\* search_google, go_back, go_forward or refresh has returned, current_frame
\* is None, whatever frame was selected before.
C11_FrameResetOnNavigation ==
    (/\ result.action \in {"switch_tab", "open_tab", "close_tab", "navigate_to",
                           "search_google", "go_back", "go_forward", "refresh"}
     /\ result.success)
        => current_frame = None

\* C12: once a page is open, every sequence of open_tab, close_tab and
\* switch_tab calls keeps 0 <= current_page_index < len(pages) and
\* len(pages) >= 1; a successful close_tab(k) removes the k-th page and moves
\* the pointer to max(0, pointer - 1) when k <= pointer, and leaves it when
\* k > pointer.
C12_PointerInRange ==
    /\ [](pages # <<>> =>
            (0 <= current_page_index /\ current_page_index < Len(pages)))
    /\ [][pages # <<>> => pages' # <<>>]_vars
    /\ [][ \A tab_index \in OptionalTabIndex, page_id \in OptionalPageId,
              close_raises \in BOOLEAN :
               (/\ result'.action = "close_tab"
                /\ result'.success
                /\ close_tab(tab_index, page_id, close_raises)) =>
                   LET k == Get(resolve_page_id(tab_index, page_id))
                   IN /\ Len(pages') = Len(pages) - 1
                      /\ current_page_index' =
                             (IF k > current_page_index THEN current_page_index
                              ELSE IF current_page_index - 1 >= 0
                                   THEN current_page_index - 1 ELSE 0) ]_vars

\* close_tab has succeeded and the pointer is on the last of the two tabs
\* that remain
C12_Witness ==
    /\ result.action = "close_tab"
    /\ result.success
    /\ Len(pages) = 2
    /\ current_page_index = 1

\* C17: every result an action returns, on every return path, validation
\* failures included, carries the page state (its url) taken after the
\* action; it is never absent.
C17_EveryResultCarriesSnapshot ==
    result.action # "" => result.url # None

\* a result that reports a failure: returned, success = False, error not empty
Failed(r) == ~r.raised /\ ~r.success /\ r.error # NoError

C14_SelectorMapKeys ==
    pages # <<>> =>
        \A fault \in InspectFaults \ {"capture"} :
            LET selector_map == get_dom_state(get_current_context, url, fault).selector_map
            IN /\ \A key \in DOMAIN selector_map :
                      selector_map[key].highlight_index = Some(key)
               /\ DOMAIN selector_map = 1..Cardinality(DOMAIN selector_map)

\* the index a caller names, 0 by default, and the selector map it is
\* looked up in
index_of(target) == IF target.index # None THEN Get(target.index) ELSE 0
map_of(inspect) == get_dom_state(get_current_context, url, inspect).selector_map
not_found(r) ==
    /\ ~r.success
    /\ r.message = "Element with index not found"
    /\ r.error[1] = "Element with index not found"

\* C13: click_element and input_text given an index that is not a key of
\* the selector map of the page state, and drag_drop given such an index for
\* its source or its target, fail with "element with index not found" and
\* issue no click, fill, mouse or keyboard call; the content of the fields
\* stays as it was.
C13_MissingIndexFails ==
    /\ [][ result'.action \in {"click_element", "input_text"} =>
              \A target \in IndexInputs :
                  (/\ ~get_current_page_raises
                   /\ index_of(target) \notin DOMAIN map_of(target.inspect)
                   /\ \/ click_element(None, target.index, target.inspect, {})
                      \/ \E text \in TextInputs, caret \in CaretInputs :
                             input_text(None, target.index, text, target.inspect, {}, caret))
                  => /\ not_found(result')
                     /\ result'.error[2] = index_of(target)
                     /\ calls' = <<>>
                     /\ value' = value ]_vars
    /\ [][ result'.action = "drag_drop" =>
              \A ends \in EndInputs, inspect \in {"none", "evaluate", "state"} :
                  (/\ ~get_current_page_raises
                   /\ \E k \in 1..2 : /\ int(ends[k]) # None
                                      /\ Get(int(ends[k])) \notin DOMAIN map_of(inspect)
                   /\ drag_drop(DragDropAction(Some(ends[1]), Some(ends[2]), <<None, None>>,
                                               <<None, None>>, Some(2)), inspect, {}))
                  => /\ ~result'.success
                     /\ calls' = <<>>
                     /\ value' = value
                     /\ (int(ends[1]) # None /\ Get(int(ends[1])) \notin DOMAIN map_of(inspect))
                            => /\ result'.message = "Source element with index not found"
                               /\ result'.error = <<"Source element with index not found",
                                                    Get(int(ends[1]))>>
                     /\ drag_point(TRUE, Some(ends[1]), None, None,
                                   ContextElements(get_current_context, url),
                                   get_dom_state(get_current_context, url, inspect), {}).ok
                            => /\ result'.message = "Target element with index not found"
                               /\ result'.error = <<"Target element with index not found",
                                                    Get(int(ends[2]))>> ]_vars

\* input_text was given an index that the selector map of a document with
\* two elements lacks, and failed without a call
C13_Witness ==
    /\ pages # <<>>
    /\ url[get_current_page] = "u1"
    /\ result.action = "input_text"
    /\ not_found(result)
    /\ calls = <<>>

\* C15: for an element that the index resolves to, click_element and
\* input_text (no call raising) take a non-empty id for the selector even
\* when the element has a name, else a non-empty name, else they click at
\* the centre x + width/2, y + height/2 of its box (input_text then types
\* the text with the keyboard) and succeed; they fail, without a call, only
\* for an element with no id, no name and no box.
C15_StrategyOrder ==
    [][ result'.action \in {"click_element", "input_text"} =>
           \A target \in IndexInputs, text \in TextInputs :
               (/\ ~get_current_page_raises
                /\ index_of(target) \in DOMAIN map_of(target.inspect)
                /\ \/ click_element(None, target.index, target.inspect, {})
                   \/ \E caret \in CaretInputs :
                          input_text(None, target.index, text, target.inspect, {}, caret))
               => LET element == map_of(target.inspect)[index_of(target)]
                      id == element.attributes.id
                      name == element.attributes.name
                      box == Get(element.page_coordinates)
                  IN IF id # None /\ id # Some("")
                     THEN /\ result'.success
                          /\ calls' # <<>>
                          /\ \A k \in 1..Len(calls') :
                                 calls'[k].selector = Selector("id", Get(id))
                     ELSE IF name # None /\ name # Some("")
                     THEN /\ result'.success
                          /\ calls' # <<>>
                          /\ \A k \in 1..Len(calls') :
                                 calls'[k].selector = Selector("name", Get(name))
                     ELSE IF element.page_coordinates # None
                     THEN /\ result'.success
                          /\ calls'[1].op = "mouse.click"
                          /\ fmul(calls'[1].x, 2) = FromInt(2 * box.x + box.width)
                          /\ fmul(calls'[1].y, 2) = FromInt(2 * box.y + box.height)
                          /\ IF result'.action = "click_element"
                             THEN Len(calls') = 1
                             ELSE /\ Len(calls') = 2
                                  /\ calls'[2].op = "keyboard.type"
                                  /\ calls'[2].text = text
                     ELSE /\ ~result'.success
                          /\ calls' = <<>>
                          /\ result'.error[1] = "No selector or coordinates available for element" ]_vars

\* input_text reached an element without id and name by its coordinates
C15_Witness ==
    /\ result.action = "input_text"
    /\ result.success
    /\ Len(calls) = 2
    /\ calls[1].op = "mouse.click"
    /\ calls[2].op = "keyboard.type"

\* C16: after a successful input_text the field it wrote to (the field the
\* selector of the fill names, or the field the mouse click hit before the
\* text was typed) holds exactly the given text.
C16_InputReplacesContent ==
    (result.action = "input_text" /\ result.success) =>
        LET elements == PageElements(url[get_current_page])
            last == calls[Len(calls)]
            click == calls[CHOOSE j \in 1..Len(calls) : calls[j].op = "mouse.click"]
            field == IF last.op = "fill" THEN query_selector(elements, last.selector)
                     ELSE element_at(elements, click.x, click.y)
        IN value[get_current_page][field] = last.text

\* C19: when the click or the fill by selector of an index-based
\* click_element or input_text raised and the fallback at the coordinates
\* followed, the result reports the error of that first call and a failure
\* if a call of the fallback raised too, success and no error if none did.
C19_PrimaryErrorReported ==
    result.action \in {"click_element", "input_text"} =>
        \A k \in 1..(Len(calls) - 1) :
            (/\ calls[k].raised
             /\ calls[k].op \in {"click", "fill"}
             /\ calls[k + 1].op = "mouse.click")
            => IF \E j \in (k + 1)..Len(calls) : calls[j].raised
               THEN /\ ~result.success
                    /\ result.error = <<"str(e)", calls[k].op>>
               ELSE /\ result.success
                    /\ result.error = NoError

\* the click by selector and the click at the coordinates both raised
C19_Witness ==
    /\ result.action = "click_element"
    /\ Len(calls) >= 2
    /\ calls[Len(calls) - 1].op = "click"
    /\ calls[Len(calls) - 1].raised
    /\ calls[Len(calls)].op = "mouse.click"
    /\ calls[Len(calls)].raised

\* C20: a drag on a page between two points S and T with steps = n >= 1
\* (10 when steps is omitted), no call raising, issues a move to S, the press, n
\* moves and the release; the last move goes exactly to T; from (0,0) to
\* (100,0) with n = 4 the moves of the loop go to x = 25, 50, 75, 100.
C20_DragPath ==
    [][ result'.action = "drag_drop" =>
           \A coord_target \in PointInputs, steps \in StepInputs :
               LET n == IF steps # None THEN Get(steps) ELSE 10
                   S == [x |-> FromInt(0), y |-> FromInt(0)]
                   T == [x |-> FromInt(Get(coord_target[1])),
                         y |-> FromInt(Get(coord_target[2]))]
               IN (/\ n >= 1
                   /\ ~get_current_page_raises
                   /\ drag_drop(DragDropAction(None, None, <<Some(0), Some(0)>>,
                                               coord_target, steps), "none", {}))
                  => /\ result'.success
                     /\ Len(calls') = n + 3
                     /\ calls'[1].op = "mouse.move"
                     /\ calls'[1].x = S.x /\ calls'[1].y = S.y
                     /\ calls'[2].op = "mouse.down"
                     /\ \A i \in 1..n : calls'[2 + i].op = "mouse.move"
                     /\ calls'[n + 3].op = "mouse.up"
                     /\ (coord_target = <<Some(100), Some(0)>> /\ n = 4)
                            => \A i \in 1..4 : /\ calls'[2 + i].x = FromInt(25 * i)
                                               /\ calls'[2 + i].y = Zero
                     /\ calls'[n + 2].x = T.x
                     /\ calls'[n + 2].y = T.y ]_vars

\* C21: switch_tab given an index below 0 or not below the number of pages
\* fails with the error that names the range of the tab indices and leaves
\* pages, current_page_index and current_frame as they were.
C21_SwitchTabOutOfRange ==
    [][ result'.action = "switch_tab" =>
           \A tab_index \in OptionalTabIndex, page_id \in OptionalPageId :
               LET id == IF tab_index # None THEN tab_index ELSE page_id
               IN (/\ id # None
                   /\ (Get(id) < 0 \/ Get(id) >= Len(pages))
                   /\ switch_tab(tab_index, page_id))
                  => /\ ~result'.success
                     /\ result'.message = MsgInvalidTab
                     /\ result'.error = <<"Tab index must be between 0 and", Len(pages) - 1>>
                     /\ pages' = pages
                     /\ current_page_index' = current_page_index
                     /\ current_frame' = current_frame ]_vars

\* switch_tab refused an index while a frame was selected on one of two tabs
C21_Witness ==
    /\ result.action = "switch_tab"
    /\ result.message = MsgInvalidTab
    /\ Len(pages) >= 2
    /\ current_frame # None

\* C22: a successful open_tab appends one new page behind the pages there
\* were, which keep their places, points current_page_index at it (the
\* number of pages less one) and sets current_frame to None.
C22_OpenTabAppends ==
    [][ \A to \in UrlInputs, fault \in OpenFaults :
           (open_tab(to, fault) /\ result'.success)
           => /\ Len(pages') = Len(pages) + 1
              /\ \A k \in 1..Len(pages) : pages'[k] = pages[k]
              /\ \A k \in 1..Len(pages) : pages'[Len(pages')] # pages[k]
              /\ current_page_index' = Len(pages') - 1
              /\ current_frame' = None ]_vars

\* a third tab was opened
C22_Witness ==
    /\ result.action = "open_tab"
    /\ result.success
    /\ Len(pages) = 3
    /\ current_page_index = 2

\* C23: switch_to_frame (no call raising) fails and leaves current_frame as
\* it was when its selector is a number outside 0..len(frames)-1, with the
\* error that names the range, and when its selector is not a number and
\* is the name of no frame and the name or id of no iframe element, with
\* the error "no frame with name or id found", whatever iframes the page
\* holds.
C23_UndesignatedFrameFails ==
    [][ \A frame_selector \in FrameSelectors \ {""} :
           LET frames == PageFrames(get_current_page)
               outside == /\ int(frame_selector) # None
                          /\ \/ Get(int(frame_selector)) < 0
                             \/ Get(int(frame_selector)) >= Len(frames)
               unmatched == /\ int(frame_selector) = None
                            /\ \A i \in 1..Len(frames) :
                                   /\ frames[i].name # frame_selector
                                   /\ i >= 2 => frames[i].id # frame_selector
           IN (/\ ~get_current_page_raises
               /\ outside \/ unmatched
               /\ switch_to_frame(frame_selector, "none"))
              => /\ ~result'.success
                 /\ current_frame' = current_frame
                 /\ outside => result'.error = ErrFrameRange
                 /\ unmatched => result'.error = ErrFrameNotFound ]_vars

\* C24: get_intervention_status called without an id fails with "no
\* intervention id provided and no active interventions exist" when no
\* request is active; otherwise it acts on an active request whose
\* created_at no active request exceeds, exactly as the call with the id of
\* that request does (the same timeout check, the same reply).
C24_StatusOfLatest ==
    [][ \A evaluate_raises \in BOOLEAN :
           get_intervention_status(None, evaluate_raises)
           => IF active_interventions = {}
              THEN /\ ~result'.success
                   /\ result'.message = MsgNoActive
                   /\ result'.error = ErrNoActive
                   /\ UNCHANGED hiVars
              ELSE \E i \in active_interventions :
                       /\ \A j \in active_interventions :
                              interventions[j].created_at <= interventions[i].created_at
                       /\ get_intervention_status(Some(i), evaluate_raises)
                       /\ result'.success => result'.intervention_id = Some(i) ]_vars

\* the status of the later of two active requests was reported
C24_Witness ==
    /\ result.action = "get_intervention_status"
    /\ result.success
    /\ result.intervention_id = Some(2)
    /\ 1 \in active_interventions

\* C25: auto_detect_intervention_needed with its five checks disabled, on a
\* page and with no page call raising, replies intervention_needed = false,
\* no detected type, no recommendation and no confidence score, whatever
\* the page shows.
C25_NoChecksNothingDetected ==
    [][ \A shows \in ShowsInputs :
           (/\ ~get_current_page_raises
            /\ auto_detect_intervention_needed({}, shows, FALSE))
           => /\ result'.success
              /\ result'.detection # None
              /\ Get(result'.detection).intervention_needed = FALSE
              /\ Get(result'.detection).detected_types = <<>>
              /\ Get(result'.detection).recommendations = <<>>
              /\ DOMAIN Get(result'.detection).confidence_scores = {} ]_vars

\* a detection replied that nothing was found
C25_Witness ==
    /\ result.action = "auto_detect_intervention_needed"
    /\ result.success
    /\ result.detection # None
    /\ ~Get(result.detection).intervention_needed

\* C26: set_cookie given an empty name or an empty value fails without a
\* call to the browser and leaves the cookies as they were; it lists the
\* cookies at most twice, each time after the add; it reports success only
\* if one of these listings held a cookie of the name and value it added,
\* and it reports failure when the add returned and neither of two
\* listings held one.
C26_SetCookieVerified ==
    /\ [][ (result'.action = "set_cookie" /\ calls' = <<>>) =>
              \A name \in CookieNames, val \in CookieValues, browser \in BrowserCookieInputs :
                  (/\ name = "" \/ val = ""
                   /\ set_cookie(name, val, browser))
                  => /\ ~result'.success
                     /\ calls' = <<>>
                     /\ jar' = jar ]_vars
    /\ [][ (result'.action = "set_cookie" /\ calls' # <<>>) =>
              \A name \in CookieNames, val \in CookieValues, browser \in BrowserCookieInputs :
                  set_cookie(name, val, browser)
                  => /\ name # "" /\ val # ""
                     /\ calls'[1].text = {Cookie(name, val)} ]_vars
    /\ [](result.action = "set_cookie" =>
              LET listings == {k \in 1..Len(calls) : calls[k].op = "context.cookies"}
                  holding == {k \in listings : calls[1].text \subseteq calls[k].text}
              IN /\ Cardinality(listings) <= 2
                 /\ \A k \in listings :
                        /\ k > 1
                        /\ calls[1].op = "context.add_cookies"
                        /\ ~calls[1].raised
                 /\ result.success => holding # {}
                 /\ (holding = {} /\ calls # <<>> /\ ~calls[1].raised)
                     => /\ ~result.success
                        /\ Cardinality(listings) = 2
                        /\ result.error = <<"Failed to set cookie">>)

\* set_cookie succeeded on its second listing
C26_Witness ==
    /\ result.action = "set_cookie"
    /\ result.success
    /\ Len(calls) = 3
    /\ calls[1].text \subseteq calls[3].text

\* C27: click_element and input_text attempt their operation at most
\* twice.  The attempt by selector (the click, the fill of the text) and the
\* attempt at the coordinates (a mouse click, and for input_text the typing)
\* are each made at most once, the one by selector first; a call with a CSS
\* selector makes no attempt at coordinates; with an index, the attempt at
\* the coordinates follows an attempt by selector only when a click or a
\* fill of that attempt raised, and then it always does (every element that
\* has a selector has coordinates).
C27_OneFallback ==
    result.action \in {"click_element", "input_text"} =>
        LET by_selector == {k \in 1..Len(calls) : calls[k].op \in {"click", "fill"}}
            at_coordinates == {k \in 1..Len(calls) : calls[k].op = "mouse.click"}
            writes == {k \in 1..Len(calls) :
                          \/ calls[k].op = "click"
                          \/ calls[k].op = "fill" /\ calls[k].text # <<>>}
            typed == {k \in 1..Len(calls) : calls[k].op = "keyboard.type"}
            with_selector ==
                result.message \in {"Clicked element with selector",
                                    "Failed to click element with selector",
                                    "Input text into element with selector",
                                    "Failed to input text into element with selector",
                                    "Element with selector not found"}
        IN /\ Cardinality(at_coordinates) <= 1
           /\ Cardinality(typed) <= 1
           /\ IF with_selector /\ result.action = "input_text"
              THEN Cardinality(writes) <= 2 /\ Cardinality(by_selector) <= 2
              ELSE Cardinality(writes) <= 1
           /\ \A s \in by_selector, m \in at_coordinates : s < m
           /\ with_selector => at_coordinates = {} /\ typed = {}
           /\ (by_selector # {} /\ at_coordinates # {})
                  => \E s \in by_selector : calls[s].raised
           /\ (~with_selector /\ \E s \in by_selector : calls[s].raised)
                  => Cardinality(at_coordinates) = 1

\* the click by selector raised and the one click at the coordinates
\* succeeded
C27_Witness ==
    /\ result.action = "click_element"
    /\ result.success
    /\ Len(calls) >= 2
    /\ calls[Len(calls) - 1].op = "click"
    /\ calls[Len(calls) - 1].raised
    /\ calls[Len(calls)].op = "mouse.click"

\* C28: while a frame is current, every mouse and keyboard call that
\* click_element, click_coordinates, input_text, send_keys and drag_drop
\* issue is made on the current top-level page, and the focus, click and
\* fill calls, which name their element by a selector, are made on the frame.
DeviceActions ==
    {"click_element", "click_coordinates", "input_text", "send_keys", "drag_drop"}
C29_SuccessIsTheNavigation ==
    [][ result'.action = "navigate_to" =>
          \A to \in UrlInputs, fault \in {"none", "goto", "idle"} :
             (~get_current_page_raises /\ navigate_to(to, fault))
                => /\ result'.success <=> fault # "goto"
                   /\ fault # "goto" => /\ url'[get_current_page] = to
                                        /\ result'.error = NoError
                   /\ fault = "goto" => /\ url' = url
                                        /\ result'.error # NoError
                   /\ fault = "idle" => navigate_to(to, "none") ]_vars
\* a navigation that succeeded on a document other than the blank one
C29_Witness ==
    /\ result.action = "navigate_to"
    /\ result.success
    /\ ~get_current_page_raises
    /\ url[get_current_page] # BlankUrl

\* C30: a wait for network idle that raises never fails the action that
\* made it: navigate_to, open_tab, go_back, search_google, wait and the
\* generation of a PDF report success when nothing else went wrong.
C30_IdleTimeoutNeverFails ==
    [][ /\ \A to \in UrlInputs : open_tab(to, "idle") => result'.success
        /\ ~get_current_page_raises
              => /\ \A to \in UrlInputs : navigate_to(to, "idle") => result'.success
                 /\ \A to \in Urls : go_back(to, "idle") => result'.success
                 /\ search_google("idle") => result'.success
                 /\ wait("idle") => result'.success
                 /\ save_pdf("idle") => result'.success ]_vars

\* C31: a status call that reports a request as pending returns
\* time_remaining = max(0, timeout_seconds - elapsed), with elapsed read
\* after the timeout check, a value from 0 to timeout_seconds; a status call
\* that reports a terminal status returns no time_remaining.
C31_TimeRemaining ==
    [][ result'.action = "get_intervention_status" =>
          \A id \in Ids, e \in BOOLEAN :
             (get_intervention_status(Some(id), e) /\ result'.success) =>
                LET limit == interventions[id].timeout_seconds * TicksPerSecond
                    elapsed == now - interventions[id].created_at
                IN /\ result'.status = Some(PENDING) =>
                        /\ result'.time_remaining # None
                        /\ Get(result'.time_remaining) >= 0
                        /\ Get(result'.time_remaining) <= limit
                        /\ \E later \in {elapsed, elapsed + 1} :
                              Get(result'.time_remaining)
                                 = IF limit - later > 0 THEN limit - later ELSE 0
                   /\ result'.status # Some(PENDING) =>
                        /\ Get(result'.status) \in TerminalStatus
                        /\ result'.time_remaining = None ]_vars
\* a pending request with a positive timeout whose time is used up
C31_Witness ==
    /\ result.action = "get_intervention_status"
    /\ result.status = Some(PENDING)
    /\ result.time_remaining = Some(0)
    /\ interventions[Get(result.intervention_id)].timeout_seconds > 0

\* C32: auto_detect_intervention_needed changes neither the intervention
\* registry nor the tab registry, whatever the page shows, whichever checks
\* are enabled and whether the call succeeds or fails: the requests, their
\* statuses, the active ones, pages, current_page_index and current_frame
\* are after the call what they were before it.
C32_DetectionIsStateless ==
    [][ result'.action = "auto_detect_intervention_needed" =>
          \/ /\ interventions' = interventions
             /\ active_interventions' = active_interventions
             /\ pages' = pages
             /\ current_page_index' = current_page_index
             /\ current_frame' = current_frame
             /\ overlay' = overlay
          \/ \A checks \in CheckInputs, shows \in ShowsInputs, page_raises \in BOOLEAN :
                ~auto_detect_intervention_needed(checks, shows, page_raises) ]_vars
\* a detection that found something while a request was active
C32_Witness ==
    /\ result.action = "auto_detect_intervention_needed"
    /\ result.success
    /\ Get(result.detection).intervention_needed
    /\ active_interventions # {}

\* C33: every detector returns a confidence from 0 to 1 that is 0 exactly
\* when it found nothing; it tries its selectors before its keywords, and
\* where it has both a match by selector gives a strictly higher confidence
\* than a match by keyword alone.  The reply of a detection has a
\* confidence for exactly the detected types, one recommendation for each
\* of them, and intervention_needed is true exactly when an enabled
\* detector found something.
C33_Detectors ==
    \A shows \in ShowsInputs, k \in 1..Len(InterventionTypes) :
       LET t == InterventionTypes[k]
           only(m) == [shows EXCEPT ![t] = m]
       IN /\ detect(t, shows).confidence \in 0..10
          /\ detect(t, shows).confidence = 0 <=> ~detect(t, shows).found
          /\ detect(t, only("both")) = detect(t, only("element"))
               \/ ~detect(t, only("element")).found
          /\ (detect(t, only("element")).found /\ detect(t, only("text")).found)
               => detect(t, only("element")).confidence
                     > detect(t, only("text")).confidence
C33_Aggregation ==
    [][ result'.action = "auto_detect_intervention_needed" =>
          \A checks \in CheckInputs, shows \in ShowsInputs :
             (/\ ~get_current_page_raises
              /\ auto_detect_intervention_needed(checks, shows, FALSE))
             => LET d == Get(result'.detection)
                    types == {d.detected_types[k] : k \in 1..Len(d.detected_types)}
                IN /\ types = {t \in checks : detect(t, shows).found}
                   /\ Cardinality(types) = Len(d.detected_types)
                   /\ DOMAIN d.confidence_scores = types
                   /\ \A t \in types :
                         d.confidence_scores[t] = detect(t, shows).confidence
                   /\ Len(d.recommendations) = Len(d.detected_types)
                   /\ \A k \in 1..Len(d.detected_types) :
                         d.recommendations[k] = Recommendation(d.detected_types[k])
                   /\ d.intervention_needed
                         <=> \E t \in checks : detect(t, shows).found ]_vars
\* C33: the detectors and the reply built from them, together
C33_DetectionReply == C33_Aggregation /\ [](C33_Detectors)
\* a detection that found a captcha by selector and a login form by keyword
C33_Witness ==
    /\ result.action = "auto_detect_intervention_needed"
    /\ result.success
    /\ Get(result.detection).detected_types = <<"captcha", "login_required">>
    /\ Get(result.detection).confidence_scores["captcha"] = 9
    /\ Get(result.detection).confidence_scores["login_required"] = 6

\* C34: after a complete, a cancel or a status call that timed the request
\* out has succeeded, with its removal script running, no open page displays
\* the overlay of that request, whichever tab is active by then.
C34_OverlayRemoved ==
    [][ result'.action \in {"complete_intervention", "cancel_intervention",
                            "get_intervention_status"} =>
          \A id \in Ids :
             (/\ id \in active_interventions
              /\ \/ \E success \in BOOLEAN, user_message \in UserMessages :
                       complete_intervention(id, success, user_message, FALSE)
                 \/ cancel_intervention(id, FALSE)
                 \/ get_intervention_status(Some(id), FALSE)
              /\ result'.success
              /\ interventions'[id].status \in TerminalStatus)
             => \A k \in 1..Len(pages) : overlay'[pages[k]] # Some(id) ]_vars

\* C35: a request_intervention that returns a failure leaves the registry
\* as it was: no request is stored by a call that did not return its id.
C35_FailedRequestStoresNothing ==
    [][ (result'.action = "request_intervention" /\ ~result'.success) =>
          \A timeout_seconds \in TimeoutInputs, take_screenshot \in BOOLEAN,
             fault \in RequestFaults :
             request_intervention(timeout_seconds, take_screenshot, fault)
                => /\ active_interventions' = active_interventions
                   /\ interventions' = interventions ]_vars

\* C36: when two of complete, cancel and a status poll that times out
\* overlap on one pending request, the request receives one terminal status
\* that no later step changes, exactly one of the two calls reports success,
\* and the status in the reply of that call is the status that call
\* assigned.
C36_StatusKept ==
    [][ \A i \in 1..Len(interventions) :
           interventions[i].status \in TerminalStatus
              => interventions'[i].status = interventions[i].status ]_vars
C36_Replies ==
    /\ \A t \in Tasks :
          (/\ tasks[t].pc = "returned"
           /\ tasks[t].op \in InterventionOps
           /\ tasks[t].reply.success)
          => tasks[t].reply.status = Some(tasks[t].set)
    /\ (/\ \A t \in Tasks : /\ tasks[t].pc = "returned"
                             /\ tasks[t].op \in InterventionOps
                             /\ tasks[t].set # ""
        /\ tasks[1].id = tasks[2].id)
       => Cardinality({t \in Tasks : tasks[t].reply.success}) = 1
\* C36: the status kept and the replies of the two calls, together
C36_OverlapKeepsOneStatus == C36_StatusKept /\ [](C36_Replies)

\* C37: two close_tab calls that overlap never close the last tab between
\* them: once a page is open the list of pages is never empty, and
\* current_page_index is an index of it.
C37_OverlappingClosesKeepATab ==
    [][ pages # <<>> => /\ pages' # <<>>
                       /\ current_page_index' \in 0..(Len(pages') - 1) ]_vars

\* C38: a successful close_tab(k) with k other than current_page_index leaves
\* the page get_current_page returns the same page, whatever happens to its
\* index; closing the active tab makes the previous tab the active one, or
\* the new first tab when the active tab was the first.
C38_ClosingKeepsActivePage ==
    [][ \A tab_index \in OptionalTabIndex, page_id \in OptionalPageId,
           close_raises \in BOOLEAN :
            (/\ result'.action = "close_tab"
             /\ result'.success
             /\ close_tab(tab_index, page_id, close_raises)) =>
                LET k == Get(resolve_page_id(tab_index, page_id))
                IN IF k # current_page_index
                   THEN pages'[current_page_index' + 1] = pages[current_page_index + 1]
                   ELSE IF current_page_index = 0
                   THEN /\ current_page_index' = 0
                        /\ pages'[1] = pages[2]
                   ELSE /\ current_page_index' = current_page_index - 1
                        /\ pages'[current_page_index' + 1] = pages[current_page_index] ]_vars

\* close_tab has closed the first of three tabs, the third being the active
\* one: it is the active page still, and now stands second
C38_Witness ==
    /\ result.action = "close_tab"
    /\ result.success
    /\ pages = <<2, 3>>
    /\ current_page_index = 1

\* C39: every drag_drop that presses the mouse button releases it before
\* it returns: among the browser calls of a drag_drop, a mouse.down that
\* returned is followed by a mouse.up that returned, whatever the value of
\* steps and whichever call fails.
C39_PressIsReleased ==
    result.action = "drag_drop" =>
        \A i \in 1..Len(calls) :
            (calls[i].op = "mouse.down" /\ ~calls[i].raised) =>
                \E j \in (i + 1)..Len(calls) :
                    calls[j].op = "mouse.up" /\ ~calls[j].raised

\* C40: the tab registry accounts for every page open_tab creates: after an
\* open_tab call, successful or failed, the page the call created is in
\* pages (open_tab closes no page, so a page it leaves out of pages is an
\* open page the registry does not hold).
C40_CreatedPageIsRegistered ==
    [][ (result'.action = "open_tab" /\ next_page' # next_page) =>
            \A p \in (next_page + 1)..next_page' :
                \E k \in 1..Len(pages') : pages'[k] = p ]_vars

====
